---------------------------- MODULE Spec2Model ----------------------------
(***************************************************************************)
(* Ledgerly: the dynamic typed-table editor of src/pages/TablesPage.tsx.   *)
(*                                                                         *)
(* One table is followed from the moment it has been created and selected. *)
(* The store (Supabase) holds its columns and rows; the page holds a local *)
(* copy of both plus the search term and the sort state.  Every handler of *)
(* the page is one action; the outcome of each store call a handler makes  *)
(* (success or error) is an input of the action.                           *)
(***************************************************************************)
EXTENDS Integers, Sequences, FiniteSets, TLC

(***************************************************************************)
(* Bounds of the model.                                                    *)
(***************************************************************************)
\* rows ever inserted into the table (row ids are 1..MaxRowId)
MaxRowId == 2
\* columns ever inserted into the table (column ids are 1..MaxColId)
MaxColId == 2
\* store calls that end in an error
MaxFaults == 1
\* rows of the tables the search and sort handlers are run on
MaxViewRows == 3
\* tables, columns and rows the dashboard and the analytics page read
MaxTables == 2
MaxMoneyCols == 2
MaxMoneyRows == 2
\* items of a document, and documents ever stored
MaxItems == 2
MaxDocs == 1
\* tables created from the tables page
MaxCreated == 1
\* rows the tables of the merge of the dashboard hold between them
MaxMergeRows == 3
\* calls of loadTableData made in a behaviour
MaxLoads == 3
\* row updates saveCell sends in a behaviour
MaxUpdates == 2

(***************************************************************************)
(* State.                                                                  *)
(***************************************************************************)
VARIABLES
    dbTable,        \* the table's record exists in user_tables
    dbColumns,      \* user_columns of the table, in created_at order
    dbRows,         \* user_rows of the table, in created_at order
    nextColId,      \* id the store gives the next inserted column
    nextRowId,      \* id the store gives the next inserted row
    selectedTable,  \* the page has the table selected
    columns,        \* useState columns
    rows,           \* useState rows
    searchQuery,    \* useState searchQuery
    sortColumnName, \* useState sortColumnName
    sortDirection,  \* useState sortDirection
    tableDeletes,   \* the tables the last handler issued a delete by table on, in order
    toasts,         \* the toasts the last handler showed, in order
    faults,         \* store calls that have ended in an error
    engine,         \* the date parser of the JavaScript engine the page runs on
    exported,       \* the file the last handler saved, if it saved one
    userTables,     \* ids of the user's tables, as the dashboard and analytics pages read them
    userColumns,    \* user_columns of all the user's tables, in the order the store returns them
    userRows,       \* user_rows of all the user's tables, in the order the store returns them
    tableRevenue,   \* DashboardHome: useState tableRevenue
    tableExpenses,  \* DashboardHome: useState tableExpenses
    tableChartData, \* DashboardHome: useState tableChartData
    tableChartById, \* DashboardHome: useState tableChartById
    tableAnalytics, \* DashboardHome: useState tableAnalytics
    analyticsColumns, \* AnalyticsPage: useState columns
    analyticsRows,  \* AnalyticsPage: useState rows
    mounted,        \* the pages whose load effect has run
    invoices,       \* the user's records of the invoices table, in created_at order
    nextDocId,      \* id the store gives the next inserted document
    docs,           \* InvoicesPage: useState docs
    form,           \* InvoicesPage: useState form
    editingId,      \* InvoicesPage: useState editingId
    showCreate,     \* InvoicesPage: useState showCreate
    showEdit,       \* InvoicesPage: useState showEdit
    createdTables,  \* names of the user_tables records handleCreateTable has inserted
    branding,       \* InvoicesPage: useState branding
    downloads,      \* the document PDFs pdf.save has saved
    selectedId,     \* TablesPage: selectedTable.id, the table picked in the list of tables
    loads,          \* the calls of loadTableData, in the order they were made
    updates,        \* the row updates saveCell has sent to the store, in the order sent
    env,            \* process.env of the payment webhook
    walletTransactions, \* the records of the wallet_transactions table
    profiles,       \* the records of the profiles table, by id
    webhook         \* the last request the payment webhook handled, and what it did

\* the state of the tables page and of the store of the table it has open
tablesPage == <<dbTable, dbColumns, dbRows, nextColId, nextRowId, selectedTable, columns,
                rows, searchQuery, sortColumnName, sortDirection, tableDeletes, faults,
                engine, exported>>

\* what the dashboard and the analytics page read from the store
userStore == <<userTables, userColumns, userRows>>

\* the state of the dashboard and of the analytics page
moneyPages == <<tableRevenue, tableExpenses, tableChartData, tableChartById, tableAnalytics,
               analyticsColumns, analyticsRows, mounted>>

\* the state of the documents page and the store of the documents
documentsPage == <<invoices, nextDocId, docs, form, editingId, showCreate, showEdit>>

\* the PDF export of the documents page
pdfExport == <<branding, downloads>>

\* the state the handlers of the tables, money and form sections leave alone
\* the table picked among the user's tables and the loads of its data
tableSwitch == <<selectedId, loads>>

\* the payment webhook and the tables it writes
payments == <<env, walletTransactions, profiles, webhook>>

elsewhere == <<pdfExport, tableSwitch, updates, payments>>

\* everything the handlers of the open table leave alone
otherPages == <<userStore, moneyPages, documentsPage, createdTables, elsewhere>>

vars == <<tablesPage, toasts, otherPages>>

dbVars == <<dbTable, dbColumns, dbRows, nextColId, nextRowId>>
viewVars == <<searchQuery, sortColumnName, sortDirection>>

(***************************************************************************)
(* Text.  A string is a sequence of one-character strings.                 *)
(***************************************************************************)
\* the ISO date the date picker of a date cell delivers
IsoDate == <<"2", "0", "2", "4", "-", "0", "1", "-", "0", "5">>

\* what the user types into the column-name box and picks as column type
ColumnNames == {"A", "B"}
ColumnTypes == {"text", "number", "currency", "date"}

\* what the user types into a cell
EditInputs == { <<>>, <<"1">>, <<"A">> }

\* what the user types into the search box
SearchInputs == { <<>>, <<" ">>, <<"a">>, <<"1">> }

DigitChars == <<"0", "1", "2", "3", "4", "5", "6", "7", "8", "9">>

IsDigit(c) == \E d \in 1..10 : DigitChars[d] = c

DigitValue(c) == (CHOOSE d \in 1..10 : DigitChars[d] = c) - 1

UpperCase == <<"A", "B", "C", "D", "E", "F", "G", "H", "I", "J", "K", "L", "M",
               "N", "O", "P", "Q", "R", "S", "T", "U", "V", "W", "X", "Y", "Z">>
LowerCase == <<"a", "b", "c", "d", "e", "f", "g", "h", "i", "j", "k", "l", "m",
               "n", "o", "p", "q", "r", "s", "t", "u", "v", "w", "x", "y", "z">>

\* the lower-case letter of every upper-case letter
LowerOf ==
    [c \in {UpperCase[k] : k \in 1..26} |-> LowerCase[CHOOSE k \in 1..26 : UpperCase[k] = c]]

\* String.prototype.toLowerCase
toLowerCase(s) == [i \in 1..Len(s) |-> IF s[i] \in DOMAIN LowerOf THEN LowerOf[s[i]] ELSE s[i]]

\* String.prototype.includes
includes(hay, needle) ==
    \E i \in 0..(Len(hay) - Len(needle)) : SubSeq(hay, i + 1, i + Len(needle)) = needle

\* String.prototype.trim
RECURSIVE trim(_)
trim(s) ==
    IF s = <<>> THEN s
    ELSE IF Head(s) = " " THEN trim(Tail(s))
    ELSE IF s[Len(s)] = " " THEN trim(SubSeq(s, 1, Len(s) - 1))
    ELSE s

\* String.prototype.replace(/,/g, "")
stripCommas(s) == SelectSeq(s, LAMBDA c : c # ",")

RECURSIVE decimal(_)
decimal(s) == IF s = <<>> THEN 0 ELSE 10 * decimal(SubSeq(s, 1, Len(s) - 1)) + DigitValue(s[Len(s)])

\* Number(string): blank text is 0, a run of digits is its value, anything
\* else of the alphabet is NaN
NumberOf(s) ==
    LET t == trim(s) IN
    IF t = <<>> THEN [finite |-> TRUE, n |-> 0]
    ELSE IF \A i \in 1..Len(t) : IsDigit(t[i]) THEN [finite |-> TRUE, n |-> decimal(t)]
    ELSE [finite |-> FALSE, n |-> 0]

RECURSIVE digits(_)
digits(n) == IF n < 10 THEN <<DigitChars[n + 1]>> ELSE digits(n \div 10) \o <<DigitChars[(n % 10) + 1]>>

(***************************************************************************)
(* Cell values: what a key of row_data holds (a JSON string or number), or *)
(* undefined when the key is absent.                                       *)
(***************************************************************************)
Str(s) == [t |-> "s", s |-> s, n |-> 0]
Num(n) == [t |-> "n", s |-> <<>>, n |-> n]
Undefined == [t |-> "u", s |-> <<>>, n |-> 0]
EmptyStr == Str(<<>>)

\* rd[key]
Get(rd, key) == IF key \in DOMAIN rd THEN rd[key] ELSE Undefined

\* { ...rd, [key]: v }
Put(rd, key, v) == [k \in DOMAIN rd \cup {key} |-> IF k = key THEN v ELSE rd[k]]

\* delete rd[key]
Delete(rd, key) == [k \in DOMAIN rd \ {key} |-> rd[k]]

\* String(v)
String(v) ==
    IF v.t = "n" THEN digits(v.n)
    ELSE IF v.t = "u" THEN <<"u", "n", "d", "e", "f", "i", "n", "e", "d">>
    ELSE v.s

\* !v
Falsy(v) == v = Undefined \/ v = EmptyStr \/ v = Num(0)

toNumberSafe(v) ==
    IF v = Undefined \/ v = EmptyStr THEN 0
    ELSE IF v.t = "n" THEN v.n
    ELSE LET p == NumberOf(stripCommas(String(v))) IN IF p.finite THEN p.n ELSE 0

\* the two date parsers: ECMAScript fixes the parse of the ISO format only
\* and leaves every other text to the engine; a strict engine rejects a text
\* of digits, a lenient one reads it as a year or a month
Engines == {"strict", "lenient"}

\* the day toISOString().slice(0, 10) gives for a text of digits a lenient
\* engine has parsed (which day it is depends on the text and on the time
\* zone; one ISO day stands for all of them)
LenientDay == <<"2", "0", "0", "1", "-", "0", "1", "-", "0", "1">>

IsDigits(s) == s # <<>> /\ \A i \in 1..Len(s) : IsDigit(s[i])

\* !isNaN(new Date(s).getTime()): an ISO day is a date on every engine, a
\* text of digits on a lenient engine, no other text of the model on any
isValidDate(s) == s = IsoDate \/ s = LenientDay \/ (engine = "lenient" /\ IsDigits(s))

\* new Date(s).toISOString().slice(0, 10): a date-only ISO text is parsed as
\* UTC midnight and comes back as the same ten characters
isoDay(s) == IF IsDigits(s) THEN LenientDay ELSE SubSeq(s, 1, 10)

(***************************************************************************)
(* The two coercions of the page.                                          *)
(***************************************************************************)
IsNumeric(type) == type = "number" \/ type = "currency"

\* handleColumnUpdate, "sanitize based on new type": the value a row keeps
\* under the column's name when the column becomes `type`
sanitize(v, type) ==
    IF IsNumeric(type)
    THEN IF v = EmptyStr \/ v = Undefined THEN EmptyStr ELSE Num(toNumberSafe(v))
    ELSE IF type = "date"
    THEN IF Falsy(v) THEN EmptyStr
         ELSE IF isValidDate(String(v)) THEN Str(isoDay(String(v))) ELSE EmptyStr
    ELSE IF v = Undefined THEN EmptyStr ELSE Str(String(v))

\* the value stored when an emptied number cell is stored as 0
cellValueZeroForEmpty(editValue, type) ==
    IF IsNumeric(type)
    THEN Num(toNumberSafe(Str(editValue)))
    ELSE IF type = "date"
    THEN IF editValue = <<>> THEN EmptyStr
         ELSE IF isValidDate(editValue) THEN Str(isoDay(editValue)) ELSE EmptyStr
    ELSE Str(editValue)

\* saveCell: the value stored for the text `editValue` typed into a cell of a
\* column of `type`
cellValue(editValue, type) ==
    IF IsNumeric(type)
    THEN IF editValue = <<>> THEN EmptyStr ELSE Num(toNumberSafe(Str(editValue)))
    ELSE IF type = "date"
    THEN IF editValue = <<>> THEN EmptyStr
         ELSE IF isValidDate(editValue) THEN Str(isoDay(editValue)) ELSE EmptyStr
    ELSE Str(editValue)

\* startEditCell: the text the cell editor opens with
startEditValue(current) == IF current = Undefined THEN <<>> ELSE String(current)

(***************************************************************************)
(* Helpers over the state.                                                 *)
(***************************************************************************)
\* sortColumnName is a column name or null; line 513 only tests it for
\* truthiness, and no column name is empty
null == ""

Range(f) == {f[i] : i \in DOMAIN f}

RowIds(rs) == {rs[i].id : i \in DOMAIN rs}

\* Array.prototype.find on a predicate over the name: the first match
FindColumn(cols, name) ==
    IF \E i \in DOMAIN cols : cols[i].name = name
    THEN cols[CHOOSE i \in DOMAIN cols :
                  cols[i].name = name /\ \A j \in 1..(i - 1) : cols[j].name # name]
    ELSE [id |-> 0, name |-> name, type |-> "text"]

\* (col?.type as ColumnType) ?? "text"
TypeOfName(cols, name) == FindColumn(cols, name).type

(***************************************************************************)
(* The store.                                                              *)
(***************************************************************************)
\* from("user_rows").update({ row_data }).eq("id", id)
UpdateRow(db, id, rd) ==
    [i \in DOMAIN db |-> IF db[i].id = id THEN [db[i] EXCEPT !.row_data = rd] ELSE db[i]]

\* from(...).delete().eq("id", id)
DeleteById(db, id) == SelectSeq(db, LAMBDA x : x.id # id)

\* rows.find((r) => r.id === id)
RowOf(rs, id) == CHOOSE r \in Range(rs) : r.id = id

\* Promise.all(rows.map(...)) of a column handler: `requests` maps the id of
\* each row the page sends an update for to the row_data it asks the store to
\* hold; the requests of the rows in `failed` end in an error and change
\* nothing
BulkUpdate(db, requests, failed) ==
    [i \in DOMAIN db |->
        IF db[i].id \in DOMAIN requests /\ db[i].id \notin failed
        THEN [db[i] EXCEPT !.row_data = requests[db[i].id]]
        ELSE db[i]]

\* loadTableData: what setColumns and setRows receive
LoadedColumns(cols, colErr) == IF colErr THEN <<>> ELSE cols
LoadedRows(rs, rowErr) == IF rowErr THEN <<>> ELSE rs
LoadToasts(colErr, rowErr) ==
    (IF colErr THEN <<"error">> ELSE <<>>) \o (IF rowErr THEN <<"error">> ELSE <<>>)

(***************************************************************************)
(* The query engine: filteredAndSortedRows.                                *)
(***************************************************************************)
\* Intl collation of the alphabet: blank, punctuation, digits, letters; the
\* two cases of a letter share a primary weight
PrimaryWeight(c) ==
    IF c = " " THEN 0
    ELSE IF c = "-" THEN 1
    ELSE IF c = "," THEN 2
    ELSE IF IsDigit(c) THEN 3 + DigitValue(c)
    ELSE 13

\* lower case sorts before upper case when nothing else differs
CaseWeight(c) == IF c = "A" THEN 1 ELSE 0

\* the weight the collation compares at a level: primary first, case last
Weight(c, level) == IF level = "primary" THEN PrimaryWeight(c) ELSE CaseWeight(c)

RECURSIVE lexCompare(_, _, _)
lexCompare(a, b, level) ==
    IF a = <<>> /\ b = <<>> THEN 0
    ELSE IF a = <<>> THEN -1
    ELSE IF b = <<>> THEN 1
    ELSE IF Weight(Head(a), level) < Weight(Head(b), level) THEN -1
    ELSE IF Weight(Head(a), level) > Weight(Head(b), level) THEN 1
    ELSE lexCompare(Tail(a), Tail(b), level)

\* String.prototype.localeCompare
localeCompare(a, b) ==
    LET p == lexCompare(a, b, "primary")
    IN  IF p # 0 THEN p ELSE lexCompare(a, b, "case")

\* aVal ?? ""
OrEmpty(v) == IF v = Undefined THEN EmptyStr ELSE v

\* a comparator that orders both directions as ascending
compareRowsAscending(a, b, sortCol, type, dir) ==
    LET aVal == OrEmpty(Get(a.row_data, sortCol))
        bVal == OrEmpty(Get(b.row_data, sortCol))
    IN  IF IsNumeric(type)
        THEN toNumberSafe(aVal) - toNumberSafe(bVal)
        ELSE localeCompare(String(aVal), String(bVal))

\* the comparator of lines 517-530
compareRows(a, b, sortCol, type, dir) ==
    LET aVal == OrEmpty(Get(a.row_data, sortCol))
        bVal == OrEmpty(Get(b.row_data, sortCol))
    IN  IF IsNumeric(type)
        THEN IF dir = "asc" THEN toNumberSafe(aVal) - toNumberSafe(bVal)
                            ELSE toNumberSafe(bVal) - toNumberSafe(aVal)
        ELSE IF dir = "asc" THEN localeCompare(String(aVal), String(bVal))
                            ELSE localeCompare(String(bVal), String(aVal))

\* an insertion that puts x before the elements it compares equal to
RECURSIVE insertBeforeEqual(_, _, _, _, _)
insertBeforeEqual(sorted, x, sortCol, type, dir) ==
    IF sorted = <<>> THEN <<x>>
    ELSE IF compareRows(x, Head(sorted), sortCol, type, dir) <= 0 THEN <<x>> \o sorted
    ELSE <<Head(sorted)>> \o insertBeforeEqual(Tail(sorted), x, sortCol, type, dir)

\* Array.prototype.sort with that comparator; the sort is stable: x goes
\* before the first element that must follow it
RECURSIVE insertSorted(_, _, _, _, _)
insertSorted(sorted, x, sortCol, type, dir) ==
    IF sorted = <<>> THEN <<x>>
    ELSE IF compareRows(x, Head(sorted), sortCol, type, dir) < 0 THEN <<x>> \o sorted
    ELSE <<Head(sorted)>> \o insertSorted(Tail(sorted), x, sortCol, type, dir)

RECURSIVE sort(_, _, _, _)
sort(list, sortCol, type, dir) ==
    IF list = <<>> THEN <<>>
    ELSE insertSorted(sort(SubSeq(list, 1, Len(list) - 1), sortCol, type, dir),
                      list[Len(list)], sortCol, type, dir)

\* the search filter of lines 505-511
matchesSearch(r, q) ==
    \E k \in DOMAIN r.row_data : includes(toLowerCase(String(r.row_data[k])), q)

\* a filter that takes a term of blanks for a search
filterRowsUntrimmed(rs, query) ==
    IF query # <<>>
    THEN SelectSeq(rs, LAMBDA r : matchesSearch(r, toLowerCase(query)))
    ELSE rs

filterRows(rs, query) ==
    IF trim(query) # <<>>
    THEN SelectSeq(rs, LAMBDA r : matchesSearch(r, toLowerCase(query)))
    ELSE rs

filteredAndSortedRowsOf(rs, cols, query, sortCol, dir) ==
    LET list == filterRows(rs, query)
    IN  IF sortCol # null
        THEN sort(list, sortCol, TypeOfName(cols, sortCol), dir)
        ELSE list

filteredAndSortedRows ==
    filteredAndSortedRowsOf(rows, columns, searchQuery, sortColumnName, sortDirection)

(***************************************************************************)
(* The aggregation engine: columnTotals.                                   *)
(***************************************************************************)
\* rows.reduce((sum, r) => sum + toNumberSafe(rd[name]), 0)
RECURSIVE reduceSum(_, _)
reduceSum(rs, name) ==
    IF rs = <<>> THEN 0
    ELSE reduceSum(SubSeq(rs, 1, Len(rs) - 1), name) + toNumberSafe(Get(rs[Len(rs)].row_data, name))

\* the rows the totals are taken over
totalledRows == rows

\* a Record<string, number> with a key for the name of every number or
\* currency column
columnTotals ==
    [name \in {columns[i].name : i \in {j \in DOMAIN columns : IsNumeric(columns[j].type)}}
        |-> reduceSum(totalledRows, name)]

(***************************************************************************)
(* The export engine: the PDF and the spreadsheet of the selected table.   *)
(***************************************************************************)
\* n.toLocaleString("en-IN") of a whole number below 1000: its digits, no
\* grouping separator
toLocaleString(n) == digits(n)

\* moneyPDF: "Rs. " and the number with two fraction digits
moneyPDF(v) == <<"R", "s", ".", " ">> \o toLocaleString(toNumberSafe(v)) \o <<".", "0", "0">>

\* a cell that shows day s as toLocaleDateString() renders it in the locale
\* of the browser; the rendering is kept as the day it renders
LocaleDate(s) == [t |-> "d", s |-> s, n |-> 0]

\* an export of every row of the table
exportRowsUnfiltered == rows

\* the rows both exports write, lines 645 and 704
exportRows == filteredAndSortedRows

\* downloadSelectedTablePDF, lines 647-659: the text of a cell
pdfCell(v, type) ==
    IF type = "currency" THEN Str(moneyPDF(v))
    ELSE IF type = "number" THEN Str(toLocaleString(toNumberSafe(v)))
    ELSE IF type = "date"
    THEN IF Falsy(v) THEN EmptyStr
         ELSE IF isValidDate(String(v)) THEN LocaleDate(isoDay(String(v))) ELSE EmptyStr
    ELSE IF v = Undefined THEN EmptyStr ELSE Str(String(v))

\* downloadSelectedTableExcel, lines 706-721: the value of a cell
sheetCell(v, type) ==
    IF IsNumeric(type)
    THEN IF v = EmptyStr \/ v = Undefined THEN EmptyStr ELSE Num(toNumberSafe(v))
    ELSE IF type = "date"
    THEN IF Falsy(v) THEN EmptyStr
         ELSE IF isValidDate(String(v)) THEN Str(isoDay(String(v))) ELSE EmptyStr
    ELSE IF v = Undefined THEN EmptyStr ELSE Str(String(v))

\* hasTotals that looks at the rows of the view instead of the rows of the table
hasTotalsOfView == filteredAndSortedRows # <<>> /\ DOMAIN columnTotals # {}

\* rows.length > 0 && Object.keys(columnTotals).length > 0
hasTotals == rows # <<>> /\ DOMAIN columnTotals # {}

TotalLabel == Str(<<"T", "o", "t", "a", "l">>)

\* lines 664-674
pdfTotalRow ==
    [j \in DOMAIN columns |->
        IF columns[j].name \in DOMAIN columnTotals
        THEN IF columns[j].type = "currency"
             THEN Str(<<"R", "s", ".", " ">> \o toLocaleString(columnTotals[columns[j].name])
                        \o <<".", "0", "0">>)
             ELSE Str(toLocaleString(columnTotals[columns[j].name]))
        ELSE IF j = 1 THEN TotalLabel ELSE EmptyStr]

\* lines 726-730
sheetTotalRow ==
    [j \in DOMAIN columns |->
        IF columns[j].name \in DOMAIN columnTotals
        THEN Num(columnTotals[columns[j].name])
        ELSE IF j = 1 THEN TotalLabel ELSE EmptyStr]

\* a header taken from the keys of an object that holds a row by column name:
\* a name that comes again adds no key
RECURSIVE exportHeadOfKeys(_)
exportHeadOfKeys(cols) ==
    IF cols = <<>> THEN <<>>
    ELSE LET before == exportHeadOfKeys(SubSeq(cols, 1, Len(cols) - 1))
             name == cols[Len(cols)].name
         IN  IF name \in Range(before) THEN before ELSE Append(before, name)

\* columns.map((c) => c.name), written as the first array of aoa_to_sheet
exportHead(cols) == [j \in DOMAIN cols |-> cols[j].name]

pdfBody ==
    [i \in DOMAIN exportRows |->
        [j \in DOMAIN columns |->
            pdfCell(Get(exportRows[i].row_data, columns[j].name), columns[j].type)]]
        \o (IF hasTotals THEN <<pdfTotalRow>> ELSE <<>>)

sheetData ==
    [i \in DOMAIN exportRows |->
        [j \in DOMAIN columns |->
            sheetCell(Get(exportRows[i].row_data, columns[j].name), columns[j].type)]]
        \o (IF hasTotals THEN <<sheetTotalRow>> ELSE <<>>)

(***************************************************************************)
(* Money: the revenue and expense totals the dashboard and the analytics   *)
(* page take over the user's tables.  Column names are texts here, and a   *)
(* row_data is keyed by them.                                              *)
(***************************************************************************)
\* /(amount|revenue|income|sale|sales|price|paid|payment|total|subtotal)/i
amountNameRegex ==
    { <<"a", "m", "o", "u", "n", "t">>,
      <<"r", "e", "v", "e", "n", "u", "e">>,
      <<"i", "n", "c", "o", "m", "e">>,
      <<"s", "a", "l", "e">>,
      <<"s", "a", "l", "e", "s">>,
      <<"p", "r", "i", "c", "e">>,
      <<"p", "a", "i", "d">>,
      <<"p", "a", "y", "m", "e", "n", "t">>,
      <<"t", "o", "t", "a", "l">>,
      <<"s", "u", "b", "t", "o", "t", "a", "l">> }

\* /(expense|cost|spent|purchase|fee|charges|rent|salary|tax|gst|vat)/i
expenseNameRegex ==
    { <<"e", "x", "p", "e", "n", "s", "e">>,
      <<"c", "o", "s", "t">>,
      <<"s", "p", "e", "n", "t">>,
      <<"p", "u", "r", "c", "h", "a", "s", "e">>,
      <<"f", "e", "e">>,
      <<"c", "h", "a", "r", "g", "e", "s">>,
      <<"r", "e", "n", "t">>,
      <<"s", "a", "l", "a", "r", "y">>,
      <<"t", "a", "x">>,
      <<"g", "s", "t">>,
      <<"v", "a", "t">> }

\* RegExp.prototype.test of an unanchored, case-insensitive alternation of words
test(regex, s) == LET folded == toLowerCase(s) IN \E word \in regex : includes(folded, word)

\* String.prototype.replace(/[₹,\s]/g, "")
stripMoney(s) == SelectSeq(s, LAMBDA c : c \notin {"₹", ",", " "})

\* DashboardHome's toNumberSafe
dashboardNumber(v) ==
    IF v = Undefined \/ v = EmptyStr THEN 0
    ELSE IF v.t = "n" THEN v.n
    ELSE LET p == NumberOf(stripMoney(String(v))) IN IF p.finite THEN p.n ELSE 0

\* AnalyticsPage's toNumberSafe
analyticsNumber(v) ==
    IF Falsy(v) THEN 0
    ELSE LET p == NumberOf(stripMoney(String(v))) IN IF p.finite THEN p.n ELSE 0

\* the column enters the dashboard's totals
looksRelevant(c) ==
    /\ c.type = "number" \/ c.type = "currency"
    /\ trim(c.name) # <<>>
    /\ test(amountNameRegex, trim(c.name)) \/ test(expenseNameRegex, trim(c.name))

\* a column that matches both patterns is an expense
bucketAmountFirst(c) == IF test(amountNameRegex, trim(c.name)) THEN "revenue" ELSE "expense"

bucket(c) == IF test(expenseNameRegex, trim(c.name)) THEN "expense" ELSE "revenue"

\* colsByTable.get(tid) ?? []
colsByTable(colsData, tid) ==
    LET kept == SelectSeq(colsData, LAMBDA c : c.table_id = tid /\ looksRelevant(c))
    IN  [i \in DOMAIN kept |-> [name |-> trim(kept[i].name), bucket |-> bucket(kept[i])]]

(***************************************************************************)
(* The numbers of the dashboard are IEEE 754 doubles, and += rounds every  *)
(* partial sum to 53 significant bits, ties to even.  A double d >= 0 is   *)
(* held as <<hi, lo>> with d = (hi * 2^30 + lo) * 2^-55 and lo < 2^30.     *)
(***************************************************************************)
RECURSIVE TwoTo(_)
TwoTo(k) == IF k = 0 THEN 1 ELSE 2 * TwoTo(k - 1)

Limb == TwoTo(30)

Zero == <<0, 0>>

\* the double of a small whole number: n * 2^55 = (n * 2^25) * 2^30
Double(n) == <<n * TwoTo(25), 0>>

RECURSIVE BitLength(_)
BitLength(n) == IF n = 0 THEN 0 ELSE 1 + BitLength(n \div 2)

\* round to nearest, ties to even, at 53 significant bits: the `drop` low
\* bits of a value of more than 53 bits are rounded away
roundToDouble(hi, lo) ==
    LET drop == BitLength(hi) - 23 IN
    IF drop <= 0 THEN <<hi, lo>>
    ELSE LET unit == TwoTo(drop)
             rest == lo % unit
             odd == (lo \div unit) % 2 = 1
             up == rest * 2 > unit \/ (rest * 2 = unit /\ odd)
             low == lo - rest + (IF up THEN unit ELSE 0)
         IN  IF low = Limb THEN <<hi + 1, 0>> ELSE <<hi, low>>

\* a + b of two doubles
plus(a, b) ==
    LET low == a[2] + b[2]
    IN  roundToDouble(a[1] + b[1] + low \div Limb, low % Limb)

\* Number("0.1"), Number("0.2"), Number("0.3"): the doubles nearest to them
Decimals ==
    (<<"0", ".", "1">> :> <<3355443, 214748365>>)
    @@ (<<"0", ".", "2">> :> <<6710886, 429496730>>)
    @@ (<<"0", ".", "3">> :> <<10066329, 644245094>>)

\* DashboardHome's toNumberSafe, as the double it returns
dashboardDouble(v) ==
    IF v.t = "s" /\ stripMoney(v.s) \in DOMAIN Decimals THEN Decimals[stripMoney(v.s)]
    ELSE Double(dashboardNumber(v))

\* the day of a created_at timestamp, as "YYYY-MM-DD" orders it
dayKey(dateStr) == dateStr.year * 10000 + dateStr.month * 100 + dateStr.date

\* the Map colsByTable after the loop over colsData
colsByTableMap(colsData) ==
    [tid \in {colsData[i].table_id : i \in DOMAIN colsData} |-> colsByTable(colsData, tid)]

\* what the loop over rowsData adds to the accumulators, in the order it
\* adds it: one entry for every entering column of every row
RECURSIVE addends(_, _)
addends(byTable, rowsData) ==
    IF rowsData = <<>> THEN <<>>
    ELSE LET r == rowsData[Len(rowsData)]
             cols == IF r.table_id \in DOMAIN byTable THEN byTable[r.table_id] ELSE <<>>
         IN  addends(byTable, SubSeq(rowsData, 1, Len(rowsData) - 1))
             \o [i \in DOMAIN cols |->
                    [table_id |-> r.table_id, dk |-> dayKey(r.created_at),
                     bucket |-> cols[i].bucket,
                     num |-> dashboardDouble(Get(r.row_data, cols[i].name))]]

\* the addends of a load that is handed these columns and these rows
addendsOf(colsData, rowsData) ==
    CHOOSE adds \in {addends(byTable, rowsData) : byTable \in {colsByTableMap(colsData)}} : TRUE

\* an accumulator after the loop: 0, then += of its addends in order
RECURSIVE accumulate(_)
accumulate(nums) ==
    IF nums = <<>> THEN Zero
    ELSE plus(accumulate(SubSeq(nums, 1, Len(nums) - 1)), nums[Len(nums)].num)

\* tblRev and tblExp
tableMoney(adds, b) == accumulate(SelectSeq(adds, LAMBDA e : e.bucket = b))

\* perTableMoney[tid]
perTableMoney(adds, tid) ==
    [id |-> tid,
     revenue |-> accumulate(SelectSeq(adds, LAMBDA e : e.bucket = "revenue" /\ e.table_id = tid)),
     expense |-> accumulate(SelectSeq(adds, LAMBDA e : e.bucket = "expense" /\ e.table_id = tid))]

\* the chart point of a day of allDayMap (tids: every table) or of
\* perTableDayMap[tid] (tids: that table)
dayPoint(adds, tids, dk) ==
    [key |-> dk,
     revenue |-> accumulate(SelectSeq(adds, LAMBDA e :
                    e.bucket = "revenue" /\ e.table_id \in tids /\ e.dk = dk)),
     expense |-> accumulate(SelectSeq(adds, LAMBDA e :
                    e.bucket = "expense" /\ e.table_id \in tids /\ e.dk = dk))]

\* the days a map has an entry for: those of the rows of tables with an
\* entering column, each of which has added to the map, and today
daysOf(adds, tids, today) ==
    {adds[i].dk : i \in {j \in DOMAIN adds : adds[j].table_id \in tids}} \cup {today}

\* mapToChartPoints: the entries of the map sorted by key
RECURSIVE mapToChartPoints(_, _, _)
mapToChartPoints(adds, tids, days) ==
    IF days = {} THEN <<>>
    ELSE LET last == CHOOSE d \in days : \A e \in days : e <= d
         IN  Append(mapToChartPoints(adds, tids, days \ {last}), dayPoint(adds, tids, last))

\* AnalyticsPage: the currency columns of the table of a row
currencyCols(cs, tid) == SelectSeq(cs, LAMBDA c : c.type = "currency" /\ c.table_id = tid)

\* the side of moneySummary a column adds to
summarySide(c) ==
    LET name == toLowerCase(c.name) IN
    IF includes(name, <<"t", "o", "t", "a", "l">>) THEN "ignored"
    ELSE IF \/ includes(name, <<"e", "x", "p", "e", "n", "s", "e">>)
            \/ includes(name, <<"c", "o", "s", "t">>)
         THEN "expense"
    ELSE "revenue"

RECURSIVE rowSummary(_, _, _)
rowSummary(r, cols, side) ==
    IF cols = <<>> THEN 0
    ELSE rowSummary(r, SubSeq(cols, 1, Len(cols) - 1), side)
         + (IF summarySide(cols[Len(cols)]) = side
            THEN analyticsNumber(Get(r.row_data, cols[Len(cols)].name)) ELSE 0)

RECURSIVE summaryOf(_, _, _)
summaryOf(cs, rs, side) ==
    IF rs = <<>> THEN 0
    ELSE summaryOf(cs, SubSeq(rs, 1, Len(rs) - 1), side)
         + rowSummary(rs[Len(rs)], currencyCols(cs, rs[Len(rs)].table_id), side)

\* useMemo moneySummary
moneySummary ==
    LET revenue == summaryOf(analyticsColumns, analyticsRows, "revenue")
        expense == summaryOf(analyticsColumns, analyticsRows, "expense")
    IN  [revenue |-> revenue, expense |-> expense, profit |-> revenue - expense]

\* DashboardHome: the table analytics of the load effect, run on the day
\* `today`; of tableAnalytics the sums of each table are kept
DashboardLoad(today) ==
    /\ \E adds \in {IF userTables = {} THEN <<>> ELSE addendsOf(userColumns, userRows)} :
           /\ tableRevenue' = tableMoney(adds, "revenue")
           /\ tableExpenses' = tableMoney(adds, "expense")
           /\ tableChartData' =
                 mapToChartPoints(adds, userTables, daysOf(adds, userTables, today))
           /\ tableChartById' =
                 [tid \in userTables |->
                     mapToChartPoints(adds, {tid}, daysOf(adds, {tid}, today))]
           /\ tableAnalytics' = {perTableMoney(adds, tid) : tid \in userTables}
    /\ mounted' = mounted \cup {"dashboard"}
    /\ toasts' = <<>>
    /\ UNCHANGED <<tablesPage, elsewhere, createdTables, userStore, documentsPage, analyticsColumns, analyticsRows>>

\* AnalyticsPage: the load effect
AnalyticsLoad ==
    /\ IF userTables = {} THEN UNCHANGED <<analyticsColumns, analyticsRows>>
       ELSE /\ analyticsColumns' = userColumns
            /\ analyticsRows' = userRows
    /\ mounted' = mounted \cup {"analytics"}
    /\ toasts' = <<>>
    /\ UNCHANGED <<tablesPage, elsewhere, createdTables, userStore, documentsPage, tableRevenue, tableExpenses,
                   tableChartData, tableChartById, tableAnalytics>>

(***************************************************************************)
(* Toasts and store errors.                                                *)
(***************************************************************************)
\* toast.error(error.message) of a failed store call
StoreError == "error.message"

ErrorToasts ==
    {StoreError, "Please enter a table name", "Please enter a column name", "Column name required", "Add columns first",
     "Select a table first", "No columns to export"}

SuccessToasts ==
    {"Table created", "Table deleted", "Column added", "Column deleted", "Column updated", "Row deleted",
     "PDF downloaded", "Excel downloaded"}

Reported == \E i \in DOMAIN toasts : toasts[i] \in ErrorToasts
Announced == \E i \in DOMAIN toasts : toasts[i] \in SuccessToasts

Count(b) == IF b THEN 1 ELSE 0

\* the store may let `n` more calls end in an error
MayFail(n) == faults + n <= MaxFaults

\* no file has been saved
NoExport == [kind |-> "none", head |-> <<>>, body |-> <<>>]

(***************************************************************************)
(* Documents: the form of the documents page and the invoices it stores.   *)
(* Of a document the model holds the number, the customer name, the items  *)
(* (quantity, rate, amount) and the totals; numbers are whole, and for the *)
(* quantities, rates and percents drawn every product and quotient the     *)
(* page computes is exact in double precision.                             *)
(***************************************************************************)
\* what the user types into the form
QtyInputs == {1, 2}
RateInputs == {0, 30, 50}
TaxInputs == {0, 10}
DocNoInputs == { <<>>, <<" ">>, <<"1">> }
CustomerInputs == { <<>>, <<"a">> }
ItemFields == {"description", "qty", "rate"}

\* editingId when no document is being edited
NoDoc == 0

\* An item is an object of the heap.  The items openEdit puts in the form are
\* the very objects of the listed document (ref names the document and the
\* place of the item in it); every other item of the form is an object of its
\* own.
NoRef == [doc |-> NoDoc, at |-> 0]

\* { description: "", hsn: "", qty: 1, rate: 0, amount: 0 }
defaultItem == [qty |-> 1, rate |-> 0, amount |-> 0, ref |-> NoRef]

blankTotals == [subtotal |-> 0, tax_percent |-> 0, tax_amount |-> 0, total |-> 0]

blankForm ==
    [doc_no |-> <<>>, customer_name |-> <<>>, items |-> <<defaultItem>>, totals |-> blankTotals]

\* items.reduce((s, i) => s + Number(i.amount || 0), 0)
RECURSIVE sumAmounts(_)
sumAmounts(items) ==
    IF items = <<>> THEN 0
    ELSE sumAmounts(SubSeq(items, 1, Len(items) - 1)) + items[Len(items)].amount

\* subtotal * (taxPercent / 100)
taxOf(subtotal, taxPercent) == (subtotal * taxPercent) \div 100

\* the form after recalcTotals with the tax left out of the total
recalcTotalsWithoutTax(prev, items, taxPercent) ==
    [prev EXCEPT !.items = items,
                 !.totals = [subtotal |-> sumAmounts(items),
                             tax_percent |-> taxPercent,
                             tax_amount |-> taxOf(sumAmounts(items), taxPercent),
                             total |-> sumAmounts(items)]]

\* the form setForm leaves, from the form prev it finds
recalcTotals(prev, items, taxPercent) ==
    LET subtotal == sumAmounts(items)
        tax_amount == taxOf(subtotal, taxPercent)
        total == subtotal + tax_amount
    IN  [prev EXCEPT !.items = items,
                     !.totals = [subtotal |-> subtotal,
                                 tax_percent |-> taxPercent,
                                 tax_amount |-> tax_amount,
                                 total |-> total]]

\* a dialog showing the form is open
FormOpen == showCreate \/ showEdit

\* the items after the assignment to the field; the text of a description is
\* not held
\* updateItem that sets the amount again only when the rate changes
itemsAfterUpdateOfRate(items, idx, field, value) ==
    IF field = "qty" THEN [items EXCEPT ![idx].qty = value]
    ELSE IF field = "rate" THEN [items EXCEPT ![idx].rate = value, ![idx].amount = items[idx].qty * value]
    ELSE items

itemsAfterUpdate(items, idx, field, value) ==
    IF field = "qty" THEN [items EXCEPT ![idx].qty = value, ![idx].amount = value * items[idx].rate]
    ELSE IF field = "rate" THEN [items EXCEPT ![idx].rate = value, ![idx].amount = items[idx].qty * value]
    ELSE items

\* the listed documents after the assignment to an item of the form: [...form.items]
\* copies the array and not its items, so an item object shared with a listed
\* document changes there too
docsAfterUpdate(item) ==
    [k \in DOMAIN docs |->
        IF docs[k].id = item.ref.doc
        THEN [docs[k] EXCEPT !.items[item.ref.at] = [item EXCEPT !.ref = NoRef]]
        ELSE docs[k]]

updateItem(idx, field, value) ==
    /\ FormOpen
    /\ idx \in DOMAIN form.items
    /\ LET items == itemsAfterUpdate(form.items, idx, field, value)
       IN  /\ form' = recalcTotals(form, items, form.totals.tax_percent)
           /\ docs' = docsAfterUpdate(items[idx])
    /\ toasts' = <<>>
    /\ UNCHANGED <<tablesPage, elsewhere, createdTables, userStore, moneyPages>>
    /\ UNCHANGED <<invoices, nextDocId, editingId, showCreate, showEdit>>

addItem ==
    /\ FormOpen
    /\ Len(form.items) < MaxItems
    /\ form' = recalcTotals(form, Append(form.items, defaultItem), form.totals.tax_percent)
    /\ toasts' = <<>>
    /\ UNCHANGED <<tablesPage, elsewhere, createdTables, userStore, moneyPages>>
    /\ UNCHANGED <<invoices, nextDocId, docs, editingId, showCreate, showEdit>>

\* the Remove button is disabled while the form has one item
removeItem(idx) ==
    /\ FormOpen
    /\ Len(form.items) # 1
    /\ idx \in DOMAIN form.items
    /\ LET items == SelectSeq([i \in DOMAIN form.items |-> [at |-> i, item |-> form.items[i]]],
                              LAMBDA e : e.at # idx)
           kept == [i \in DOMAIN items |-> items[i].item]
       IN  form' = recalcTotals(form, IF kept # <<>> THEN kept ELSE <<defaultItem>>,
                                form.totals.tax_percent)
    /\ toasts' = <<>>
    /\ UNCHANGED <<tablesPage, elsewhere, createdTables, userStore, moneyPages>>
    /\ UNCHANGED <<invoices, nextDocId, docs, editingId, showCreate, showEdit>>

\* onChange of the Tax % input
setTaxPercent(value) ==
    /\ FormOpen
    /\ form' = recalcTotals(form, form.items, value)
    /\ toasts' = <<>>
    /\ UNCHANGED <<tablesPage, elsewhere, createdTables, userStore, moneyPages>>
    /\ UNCHANGED <<invoices, nextDocId, docs, editingId, showCreate, showEdit>>

\* onChange of the Document No. input
setDocNo(value) ==
    /\ FormOpen
    /\ form' = [form EXCEPT !.doc_no = value]
    /\ toasts' = <<>>
    /\ UNCHANGED <<tablesPage, elsewhere, createdTables, userStore, moneyPages>>
    /\ UNCHANGED <<invoices, nextDocId, docs, editingId, showCreate, showEdit>>

\* onChange of the customer name input
setCustomerName(value) ==
    /\ FormOpen
    /\ form' = [form EXCEPT !.customer_name = value]
    /\ toasts' = <<>>
    /\ UNCHANGED <<tablesPage, elsewhere, createdTables, userStore, moneyPages>>
    /\ UNCHANGED <<invoices, nextDocId, docs, editingId, showCreate, showEdit>>

\* onOpenChange of the Create dialog
setShowCreate(open) ==
    /\ IF open THEN ~FormOpen ELSE showCreate
    /\ showCreate' = open
    /\ toasts' = <<>>
    /\ UNCHANGED <<tablesPage, elsewhere, createdTables, userStore, moneyPages>>
    /\ UNCHANGED <<invoices, nextDocId, docs, form, editingId, showEdit>>

\* onOpenChange of the Edit dialog, which only closes it
setShowEdit ==
    /\ showEdit
    /\ showEdit' = FALSE
    /\ toasts' = <<>>
    /\ UNCHANGED <<tablesPage, elsewhere, createdTables, userStore, moneyPages>>
    /\ UNCHANGED <<invoices, nextDocId, docs, form, editingId, showCreate>>

\* the invoices of the user, newest first
newestFirst(stored) == [i \in DOMAIN stored |-> stored[Len(stored) + 1 - i]]

\* the docs refresh leaves and the toasts it shows
docsAfterRefresh(stored, failed) == IF failed THEN docs ELSE newestFirst(stored)
refreshToasts(failed) == IF failed THEN <<StoreError>> ELSE <<>>

\* validations that let an empty customer name through
validationErrorOfDocNoOnly ==
    IF trim(form.doc_no) = <<>> THEN "Document No. required" ELSE null

\* the first validation of save and saveEdit that fails
validationError ==
    IF trim(form.doc_no) = <<>> THEN "Document No. required"
    ELSE IF trim(form.customer_name) = <<>> THEN "Customer name required"
    ELSE null

\* the items as the store and a read of the store hold them: objects of their own
jsonItems(items) == [i \in DOMAIN items |-> [items[i] EXCEPT !.ref = NoRef]]

payload ==
    [doc_no |-> trim(form.doc_no), customer_name |-> trim(form.customer_name),
     items |-> jsonItems(form.items), totals |-> form.totals]

save(insertFails, refreshFails) ==
    /\ showCreate
    /\ IF validationError # null
       THEN /\ toasts' = <<validationError>>
            /\ UNCHANGED <<invoices, nextDocId, docs, form, showCreate>>
       ELSE IF insertFails
       THEN /\ toasts' = <<StoreError>>
            /\ UNCHANGED <<invoices, nextDocId, docs, form, showCreate>>
       ELSE /\ nextDocId <= MaxDocs
            /\ invoices' = Append(invoices, [id |-> nextDocId] @@ payload)
            /\ nextDocId' = nextDocId + 1
            /\ toasts' = <<"Document saved!">> \o refreshToasts(refreshFails)
            /\ showCreate' = FALSE
            /\ form' = blankForm
            /\ docs' = docsAfterRefresh(invoices', refreshFails)
    /\ UNCHANGED <<tablesPage, elsewhere, createdTables, userStore, moneyPages>>
    /\ UNCHANGED <<editingId, showEdit>>

\* the form openEdit fills from a listed document: items is d.items itself
formOf(d) ==
    [doc_no |-> d.doc_no, customer_name |-> d.customer_name,
     items |-> [j \in DOMAIN d.items |-> [d.items[j] EXCEPT !.ref = [doc |-> d.id, at |-> j]]],
     totals |-> [subtotal |-> d.totals.subtotal, tax_percent |-> d.totals.tax_percent,
                 tax_amount |-> d.totals.tax_amount, total |-> d.totals.total]]

\* the Edit button of a listed document
openEdit(i) ==
    /\ ~FormOpen
    /\ i \in DOMAIN docs
    /\ editingId' = docs[i].id
    /\ form' = formOf(docs[i])
    /\ showEdit' = TRUE
    /\ toasts' = <<>>
    /\ UNCHANGED <<tablesPage, elsewhere, createdTables, userStore, moneyPages>>
    /\ UNCHANGED <<invoices, nextDocId, docs, showCreate>>

\* update(payload).eq("id", id)
updateById(stored, id, p) ==
    [i \in DOMAIN stored |-> IF stored[i].id = id THEN [id |-> id] @@ p ELSE stored[i]]

saveEdit(updateFails, refreshFails) ==
    /\ showEdit
    /\ IF editingId = NoDoc
       THEN /\ toasts' = <<>>
            /\ UNCHANGED <<invoices, docs, editingId, showEdit>>
       ELSE IF validationError # null
       THEN /\ toasts' = <<validationError>>
            /\ UNCHANGED <<invoices, docs, editingId, showEdit>>
       ELSE IF updateFails
       THEN /\ toasts' = <<StoreError>>
            /\ UNCHANGED <<invoices, docs, editingId, showEdit>>
       ELSE /\ invoices' = updateById(invoices, editingId, payload)
            /\ toasts' = <<"Document updated!">> \o refreshToasts(refreshFails)
            /\ showEdit' = FALSE
            /\ editingId' = NoDoc
            /\ docs' = docsAfterRefresh(invoices', refreshFails)
    /\ form' = IF docs' = docs THEN form ELSE [form EXCEPT !.items = jsonItems(form.items)]
    /\ UNCHANGED <<tablesPage, elsewhere, createdTables, userStore, moneyPages>>
    /\ UNCHANGED <<nextDocId, showCreate>>

\* delete().eq("id", id)
deleteDoc(i, deleteFails) ==
    /\ ~FormOpen
    /\ i \in DOMAIN docs
    /\ IF deleteFails
       THEN /\ toasts' = <<StoreError>>
            /\ UNCHANGED <<invoices, docs>>
       ELSE /\ invoices' = SelectSeq(invoices, LAMBDA d : d.id # docs[i].id)
            /\ docs' = SelectSeq(docs, LAMBDA d : d.id # docs[i].id)
            /\ toasts' = <<"Deleted">>
    /\ UNCHANGED <<tablesPage, elsewhere, createdTables, userStore, moneyPages>>
    /\ UNCHANGED <<nextDocId, form, editingId, showCreate, showEdit>>

(***************************************************************************)
(* The PDF of a listed document.  The logo is fetched from the URL the     *)
(* branding record names; what the URL serves is an input of the export.   *)
(***************************************************************************)
LogoUrl == "https://logo"

\* the user_branding records the store may hold: none, one without a logo,
\* one with a logo
BrandingData == {[logo_url |-> null], [logo_url |-> LogoUrl]}

\* what the fetch of the logo ends in: a rejected fetch, or a response
\* whose body has the content type named
Served == {"network error", "404 application/json", "text/html", "image/png", "image/jpeg"}

\* the effect of lines 186-197: setBranding(data) once the record is read
loadBranding(data) ==
    /\ branding' = data
    /\ toasts' = <<>>
    /\ UNCHANGED <<tablesPage, createdTables, userStore, moneyPages, documentsPage, downloads,
                   tableSwitch, updates, payments>>

\* fetch does not reject on an error status: the body of every response is
\* read and encoded, whatever its status and content type
urlToDataURL(served) ==
    CASE served = "network error" -> null
      [] served = "404 application/json" -> "data:application/json"
      [] served = "text/html" -> "data:text/html"
      [] served = "image/png" -> "data:image/png"
      [] served = "image/jpeg" -> "data:image/jpeg"

IsImage(dataUrl) == dataUrl \in {"data:image/png", "data:image/jpeg"}

\* e.message of the error pdf.addImage throws
ImageError == "addImage error"

\* the Download button of a listed document.  pdf.addImage is handed
\* whatever data URL came back; given one that is no image it may throw,
\* and the catch of line 610 then ends the export before pdf.save
downloadPDF(i, served, addImageThrows) ==
    /\ ~FormOpen
    /\ i \in DOMAIN docs
    /\ LET logoUrl == branding.logo_url
           logoDataUrl == IF logoUrl # null THEN urlToDataURL(served) ELSE null
       IN  /\ addImageThrows => logoDataUrl # null /\ ~IsImage(logoDataUrl)
           /\ IF addImageThrows
              THEN /\ toasts' = <<ImageError>>
                   /\ UNCHANGED downloads
              ELSE /\ downloads' = downloads \cup {[doc |-> docs[i].id, logo |-> logoDataUrl # null]}
                   /\ toasts' = <<"PDF downloaded">>
    /\ UNCHANGED <<tablesPage, createdTables, userStore, moneyPages, documentsPage, branding,
                   tableSwitch, updates, payments>>

\* no branding record has been read and no PDF has been saved
NoPdfExport ==
    /\ branding = [logo_url |-> null]
    /\ downloads = {}

(***************************************************************************)
(* The list of tables: a click on a table selects it, and the effect on    *)
(* selectedTable.id then calls loadTableData for it.  Each call awaits its *)
(* two queries and then sets columns and rows; calls made for different    *)
(* tables are in flight together and end in any order.                     *)
(***************************************************************************)
NoTable == 0

\* setSelectedTable(table) of line 844 and the effect of lines 242-246,
\* which runs when the id has changed
setSelectedTable(tid) ==
    /\ tid \in userTables
    /\ selectedId' = tid
    /\ tid # selectedId => Len(loads) < MaxLoads
    /\ loads' = IF tid # selectedId THEN Append(loads, [table |-> tid, done |-> FALSE]) ELSE loads
    /\ toasts' = <<>>
    /\ UNCHANGED <<tablesPage, createdTables, userStore, moneyPages, documentsPage, pdfExport,
                   updates, payments>>

\* the data of a table as the two queries of loadTableData return it
columnsOfTable(tid) == SelectSeq(userColumns, LAMBDA c : c.table_id = tid)
rowsOfTable(tid) == SelectSeq(userRows, LAMBDA r : r.table_id = tid)

\* the rest of a call of loadTableData, after its await: setColumns and
\* setRows with what the queries returned, whichever table is selected now
loadTableData(k) ==
    /\ k \in DOMAIN loads
    /\ ~loads[k].done
    /\ columns' = columnsOfTable(loads[k].table)
    /\ rows' = rowsOfTable(loads[k].table)
    /\ loads' = [loads EXCEPT ![k].done = TRUE]
    /\ toasts' = <<>>
    /\ UNCHANGED <<dbVars, selectedTable, viewVars, tableDeletes, faults, engine, exported>>
    /\ UNCHANGED <<createdTables, userStore, moneyPages, documentsPage, pdfExport, selectedId,
                   updates, payments>>

\* no table has been picked in the list and no load has been started
NoTableSwitch ==
    /\ selectedId = NoTable
    /\ loads = <<>>

(***************************************************************************)
(* The payment webhook (api/razorpay-webhook).  A request carries a method,*)
(* the x-razorpay-signature header and the text of its body.  A JSON text  *)
(* is a payload in a layout: "compact" is the text JSON.stringify writes,  *)
(* "spaced" is any other text of the same payload (white space between the *)
(* tokens, "\/" for "/", \u escapes).  The platform's body parser hands the *)
(* handler the parsed payload when the request is sent as application/json *)
(* and the text otherwise.                                                 *)
(***************************************************************************)
JSONparse(text) == text.payload

JSONstringify(value) == [payload |-> value, layout |-> "compact"]

\* crypto.createHmac("sha256", key).update(text).digest("hex"); different
\* keys or texts give different digests
createHmac(key, text) == <<"sha256", key, text>>

Secret == "whsec"

Users == {"u1"}

\* the x-razorpay-signature header is absent or empty
NoSignature == <<>>

Paid == <<"p", "a", "i", "d">>
Failed == <<"f", "a", "i", "l", "e", "d">>
Monthly == <<"m", "o", "n", "t", "h", "l", "y">>
Yearly == <<"y", "e", "a", "r", "l", "y">>

successStates ==
    {<<"c", "a", "p", "t", "u", "r", "e", "d">>, <<"a", "u", "t", "h", "o", "r", "i", "z", "e", "d">>,
     Paid, <<"s", "u", "c", "c", "e", "s", "s">>}

NoEntity == [id |-> 0, status |-> <<>>, user_id |-> null, plan |-> <<>>]

NoRequest == [method |-> null, signature |-> NoSignature, raw |-> JSONstringify(NoEntity), json |-> FALSE]

\* req.body, as the body parser of the platform leaves it
bodyOf(req) == IF req.json THEN JSONparse(req.raw) ELSE req.raw

\* premiumUntil of lines 169-177, as the term added to the day of the request
premiumUntil(plan) ==
    IF plan = Monthly THEN "1 month"
    ELSE IF plan = Yearly THEN "1 year"
    ELSE "30 days"

\* The plan is a text; the empty text stands for null in premium_type.
\* upsert(record, { onConflict: "razorpay_payment_id" })
upsert(table, record) ==
    {r \in table : r.razorpay_payment_id # record.razorpay_payment_id} \cup {record}

\* what the handler answers and writes: the HTTP status, the record it
\* upserts into wallet_transactions and the update it makes to profiles.
\* The fields of the payment that are copied unread (order id, amount,
\* currency, method, email, contact) are left out.
NoWrite == [wallet |-> FALSE, premium |-> FALSE]

answer(req, walletError, profileError) ==
    LET webhookSecret == env.RAZORPAY_WEBHOOK_SECRET
        signature == req.signature
        body == IF req.json THEN JSONstringify(bodyOf(req)) ELSE bodyOf(req)
        expected == createHmac(webhookSecret, body)
        payment == JSONparse(body)
        userId == payment.user_id
        status == toLowerCase(payment.status)
    IN  IF req.method # "POST" THEN [status |-> 405] @@ NoWrite
        ELSE IF webhookSecret = null \/ env.SUPABASE_URL = null
                   \/ env.SUPABASE_SERVICE_ROLE_KEY = null
             THEN [status |-> 500] @@ NoWrite
        ELSE IF signature = NoSignature THEN [status |-> 400] @@ NoWrite
        ELSE IF expected # signature THEN [status |-> 401] @@ NoWrite
        ELSE IF payment = NoEntity THEN [status |-> 200] @@ NoWrite
        ELSE IF userId = null THEN [status |-> 200] @@ NoWrite
        ELSE IF walletError THEN [status |-> 500] @@ NoWrite
        ELSE IF status \notin successStates
             THEN [status |-> 200, wallet |-> TRUE, premium |-> FALSE]
        ELSE IF profileError THEN [status |-> 500, wallet |-> TRUE, premium |-> FALSE]
        ELSE [status |-> 200, wallet |-> TRUE, premium |-> TRUE]

handler(req, walletError, profileError) ==
    LET payment == JSONparse(req.raw)
        plan == toLowerCase(payment.plan)
    IN  \E res \in {answer(req, walletError, profileError)} :
          /\ walletTransactions' =
                IF res.wallet
                THEN upsert(walletTransactions,
                            [user_id |-> payment.user_id, razorpay_payment_id |-> payment.id,
                             status |-> payment.status, description |-> plan])
                ELSE walletTransactions
          /\ profiles' =
                IF res.premium /\ payment.user_id \in DOMAIN profiles
                THEN [profiles EXCEPT ![payment.user_id] =
                         [is_premium |-> TRUE,
                          premium_type |-> plan,
                          premium_until |-> premiumUntil(plan)]]
                ELSE profiles
          /\ webhook' = [req |-> req, status |-> res.status,
                         wrote |-> {t \in {"wallet_transactions"} : res.wallet}
                                   \cup {t \in {"profiles"} : res.premium}]
    /\ UNCHANGED <<tablesPage, toasts, userStore, moneyPages, documentsPage, createdTables,
                   pdfExport, tableSwitch, updates, env>>

AllSet == [RAZORPAY_WEBHOOK_SECRET |-> Secret, SUPABASE_URL |-> "url",
           SUPABASE_SERVICE_ROLE_KEY |-> "key"]

NoPaymentYet ==
    /\ walletTransactions = {}
    /\ profiles = [u \in Users |-> [is_premium |-> FALSE, premium_type |-> <<>>,
                                    premium_until |-> null]]
    /\ webhook = [req |-> NoRequest, status |-> 0, wrote |-> {}]

\* the sections added to the page model start idle
NothingElsewhere ==
    NoPdfExport /\ NoTableSwitch /\ updates = <<>> /\ env = AllSet /\ NoPaymentYet

\* the documents page has just been opened: no document is stored
NoDocumentsPage ==
    /\ invoices = <<>>
    /\ nextDocId = 1
    /\ docs = <<>>
    /\ form = blankForm
    /\ editingId = NoDoc
    /\ showCreate = FALSE
    /\ showEdit = FALSE

\* the user has opened neither the dashboard nor the analytics page
NoMoneyPages ==
    /\ userTables = {}
    /\ userColumns = <<>>
    /\ userRows = <<>>
    /\ tableRevenue = Zero
    /\ tableExpenses = Zero
    /\ tableChartData = <<>>
    /\ tableChartById = <<>>
    /\ tableAnalytics = {}
    /\ analyticsColumns = <<>>
    /\ analyticsRows = <<>>
    /\ mounted = {}

(***************************************************************************)
(* Initial state: the table has just been created and selected; it has no  *)
(* columns and no rows, no search term and no sort.                        *)
(***************************************************************************)
TablesPageOpened ==
    /\ dbTable = TRUE
    /\ dbColumns = <<>>
    /\ dbRows = <<>>
    /\ nextColId = 1
    /\ nextRowId = 1
    /\ selectedTable = TRUE
    /\ columns = <<>>
    /\ rows = <<>>
    /\ searchQuery = <<>>
    /\ sortColumnName = null
    /\ sortDirection = "asc"
    /\ tableDeletes = <<>>
    /\ exported = NoExport
    /\ toasts = <<>>
    /\ faults = 0
    /\ engine \in Engines
    /\ createdTables = <<>>

Init == TablesPageOpened /\ NoMoneyPages /\ NoDocumentsPage /\ NothingElsewhere

(***************************************************************************)
(* handleCreateTable.  The new table becomes the open table: the store     *)
(* holds no column and no row of it, and the page loads that.              *)
(***************************************************************************)
\* what the user types into the table-name box
TableNameInputs == { <<>>, <<" ">>, <<"T">> }

handleCreateTable(newTableName, insErr) ==
    /\ MayFail(Count(insErr))
    /\ faults' = faults + Count(insErr)
    /\ IF trim(newTableName) = <<>>
       THEN /\ ~insErr
            /\ toasts' = <<"Please enter a table name">>
            /\ UNCHANGED <<createdTables, dbVars, selectedTable, columns, rows>>
       ELSE IF insErr
       THEN /\ toasts' = <<StoreError>>
            /\ UNCHANGED <<createdTables, dbVars, selectedTable, columns, rows>>
       ELSE /\ Len(createdTables) < MaxCreated
            /\ createdTables' = Append(createdTables, trim(newTableName))
            /\ toasts' = <<"Table created">>
            /\ dbTable' = TRUE
            /\ dbColumns' = <<>>
            /\ dbRows' = <<>>
            /\ selectedTable' = TRUE
            /\ columns' = <<>>
            /\ rows' = <<>>
            /\ UNCHANGED <<nextColId, nextRowId>>
    /\ tableDeletes' = <<>>
    /\ exported' = NoExport
    /\ UNCHANGED <<viewVars, engine, userStore, moneyPages, documentsPage, elsewhere>>

(***************************************************************************)
(* handleDeleteTable.                                                      *)
(***************************************************************************)
DeleteOrder == <<"user_rows", "user_columns", "user_tables">>

\* a handler that goes on after a failed delete
issuedDeletesAll(failAt) == DeleteOrder

\* the deletes handleDeleteTable issues when the delete on `failAt` ends in
\* an error ("none": no delete fails): each error is thrown, so the deletes
\* after it are never reached
issuedDeletes(failAt) ==
    IF failAt = "user_rows" THEN SubSeq(DeleteOrder, 1, 1)
    ELSE IF failAt = "user_columns" THEN SubSeq(DeleteOrder, 1, 2)
    ELSE DeleteOrder

\* the issued deletes that took effect
Deleted(what, failAt) == what \in Range(issuedDeletes(failAt)) /\ what # failAt

handleDeleteTable(failAt) ==
    /\ dbTable
    /\ selectedTable
    /\ MayFail(Count(failAt # "none"))
    /\ faults' = faults + Count(failAt # "none")
    /\ tableDeletes' = issuedDeletes(failAt)
    /\ exported' = NoExport
    /\ dbRows' = IF Deleted("user_rows", failAt) THEN <<>> ELSE dbRows
    /\ dbColumns' = IF Deleted("user_columns", failAt) THEN <<>> ELSE dbColumns
    /\ dbTable' = ~Deleted("user_tables", failAt)
    /\ IF failAt = "none"
       THEN /\ toasts' = <<"Table deleted">>
            /\ selectedTable' = FALSE
            /\ columns' = <<>>
            /\ rows' = <<>>
       ELSE /\ toasts' = <<StoreError>>
            /\ UNCHANGED <<selectedTable, columns, rows>>
    /\ UNCHANGED otherPages
    /\ UNCHANGED <<nextColId, nextRowId, viewVars, engine>>

(***************************************************************************)
(* Column handlers.  insErr, delErr, updErr: the call on user_columns ends *)
(* in an error; failed: the rows whose update ends in an error; colErr,    *)
(* rowErr: the two selects of loadTableData end in an error.               *)
(***************************************************************************)
\* handleAddColumn: the rows that already hold the key are left alone
addSkips(r, colName) == Get(r.row_data, colName) # Undefined

\* what follows a bulk update of the rows: the success toast and loadTableData
afterBulkUpdate(message, failed, colErr, rowErr) ==
    <<message>> \o LoadToasts(colErr, rowErr)

handleAddColumn(colName, type, insErr, failed, colErr, rowErr) ==
    /\ selectedTable
    /\ nextColId <= MaxColId
    /\ MayFail(Count(insErr) + Cardinality(failed) + Count(colErr) + Count(rowErr))
    /\ faults' = faults + Count(insErr) + Cardinality(failed) + Count(colErr) + Count(rowErr)
    /\ IF colName = ""
       THEN /\ ~insErr /\ failed = {} /\ ~colErr /\ ~rowErr
            /\ toasts' = <<"Please enter a column name">>
            /\ UNCHANGED <<dbColumns, dbRows, nextColId, columns, rows>>
       ELSE IF insErr
       THEN /\ failed = {} /\ ~colErr /\ ~rowErr
            /\ toasts' = <<StoreError>>
            /\ UNCHANGED <<dbColumns, dbRows, nextColId, columns, rows>>
       ELSE LET requests == [id \in {r.id : r \in {x \in Range(rows) : ~addSkips(x, colName)}}
                                 |-> Put(RowOf(rows, id).row_data, colName, EmptyStr)]
                newCols == Append(dbColumns, [id |-> nextColId, name |-> colName, type |-> type])
                newRows == BulkUpdate(dbRows, requests, failed)
            IN  /\ failed \subseteq DOMAIN requests
                /\ dbColumns' = newCols
                /\ dbRows' = newRows
                /\ nextColId' = nextColId + 1
                /\ columns' = LoadedColumns(newCols, colErr)
                /\ rows' = LoadedRows(newRows, rowErr)
                /\ toasts' = afterBulkUpdate("Column added", failed, colErr, rowErr)
    /\ tableDeletes' = <<>>
    /\ exported' = NoExport
    /\ UNCHANGED otherPages
    /\ UNCHANGED <<dbTable, nextRowId, selectedTable, viewVars, engine>>

handleDeleteColumn(ci, delErr, failed, colErr, rowErr) ==
    /\ selectedTable
    /\ ci \in DOMAIN columns
    /\ MayFail(Count(delErr) + Cardinality(failed) + Count(colErr) + Count(rowErr))
    /\ faults' = faults + Count(delErr) + Cardinality(failed) + Count(colErr) + Count(rowErr)
    /\ IF delErr
       THEN /\ failed = {} /\ ~colErr /\ ~rowErr
            /\ toasts' = <<StoreError>>
            /\ UNCHANGED <<dbColumns, dbRows, columns, rows>>
       ELSE LET col == columns[ci]
                requests == [id \in {r.id : r \in {x \in Range(rows) : col.name \in DOMAIN x.row_data}}
                                 |-> Delete(RowOf(rows, id).row_data, col.name)]
                newCols == DeleteById(dbColumns, col.id)
                newRows == BulkUpdate(dbRows, requests, failed)
            IN  /\ failed \subseteq DOMAIN requests
                /\ dbColumns' = newCols
                /\ dbRows' = newRows
                /\ columns' = LoadedColumns(newCols, colErr)
                /\ rows' = LoadedRows(newRows, rowErr)
                /\ toasts' = afterBulkUpdate("Column deleted", failed, colErr, rowErr)
    /\ tableDeletes' = <<>>
    /\ exported' = NoExport
    /\ UNCHANGED otherPages
    /\ UNCHANGED <<dbTable, nextColId, nextRowId, selectedTable, viewVars, engine>>

\* a migration that leaves the old key behind
migrateKeepsOldKey(rd, oldName, newName, newType) ==
    Put(rd, newName, sanitize(Get(rd, oldName), newType))

\* handleColumnUpdate, lines 393-415: the row_data a row is given when the
\* column oldName becomes newName of type newType
migrate(rd, oldName, newName, newType) ==
    LET moved == IF oldName # newName
                 THEN Delete(Put(rd, newName, Get(rd, oldName)), oldName)
                 ELSE rd
    IN  Put(moved, newName, sanitize(Get(moved, newName), newType))

\* from("user_columns").update({ name, type }).eq("id", id)
UpdateColumn(db, id, newName, newType) ==
    [i \in DOMAIN db |->
        IF db[i].id = id THEN [db[i] EXCEPT !.name = newName, !.type = newType] ELSE db[i]]

handleColumnUpdate(ci, newName, newType, updErr, failed, colErr, rowErr) ==
    /\ selectedTable
    /\ ci \in DOMAIN columns
    /\ MayFail(Count(updErr) + Cardinality(failed) + Count(colErr) + Count(rowErr))
    /\ faults' = faults + Count(updErr) + Cardinality(failed) + Count(colErr) + Count(rowErr)
    /\ IF newName = ""
       THEN /\ ~updErr /\ failed = {} /\ ~colErr /\ ~rowErr
            /\ toasts' = <<"Column name required">>
            /\ UNCHANGED <<dbColumns, dbRows, columns, rows>>
       ELSE IF updErr
       THEN /\ failed = {} /\ ~colErr /\ ~rowErr
            /\ toasts' = <<StoreError>>
            /\ UNCHANGED <<dbColumns, dbRows, columns, rows>>
       ELSE LET col == columns[ci]
                requests == [id \in RowIds(rows)
                                 |-> migrate(RowOf(rows, id).row_data, col.name, newName, newType)]
                newCols == UpdateColumn(dbColumns, col.id, newName, newType)
                newRows == BulkUpdate(dbRows, requests, failed)
            IN  /\ failed \subseteq DOMAIN requests
                /\ dbColumns' = newCols
                /\ dbRows' = newRows
                /\ columns' = LoadedColumns(newCols, colErr)
                /\ rows' = LoadedRows(newRows, rowErr)
                /\ toasts' = afterBulkUpdate("Column updated", failed, colErr, rowErr)
    /\ tableDeletes' = <<>>
    /\ exported' = NoExport
    /\ UNCHANGED otherPages
    /\ UNCHANGED <<dbTable, nextColId, nextRowId, selectedTable, viewVars, engine>>

(***************************************************************************)
(* Row handlers.                                                           *)
(***************************************************************************)
\* handleAddRow: empty[c.name] = "" for every column of the page
\* the row_data of a new row that has a key for the first column only
emptyRowDataOfFirstColumn == [name \in {columns[1].name} |-> EmptyStr]

\* const empty = {}; columns.forEach((c) => (empty[c.name] = ""))
emptyRowData == [name \in {columns[i].name : i \in DOMAIN columns} |-> EmptyStr]

handleAddRow(insErr, colErr, rowErr) ==
    /\ selectedTable
    /\ MayFail(Count(insErr) + Count(colErr) + Count(rowErr))
    /\ faults' = faults + Count(insErr) + Count(colErr) + Count(rowErr)
    /\ IF columns = <<>>
       THEN /\ ~insErr /\ ~colErr /\ ~rowErr
            /\ toasts' = <<"Add columns first">>
            /\ UNCHANGED <<dbRows, nextRowId, columns, rows>>
       ELSE /\ nextRowId <= MaxRowId
            /\ IF insErr
               THEN /\ ~colErr /\ ~rowErr
                    /\ toasts' = <<StoreError>>
                    /\ UNCHANGED <<dbRows, nextRowId, columns, rows>>
               ELSE LET newRows == Append(dbRows, [id |-> nextRowId, row_data |-> emptyRowData])
                    IN  /\ dbRows' = newRows
                        /\ nextRowId' = nextRowId + 1
                        /\ columns' = LoadedColumns(dbColumns, colErr)
                        /\ rows' = LoadedRows(newRows, rowErr)
                        /\ toasts' = LoadToasts(colErr, rowErr)
    /\ tableDeletes' = <<>>
    /\ exported' = NoExport
    /\ UNCHANGED otherPages
    /\ UNCHANGED <<dbTable, dbColumns, nextColId, selectedTable, viewVars, engine>>

handleDeleteRow(rowId, delErr) ==
    /\ selectedTable
    /\ rowId \in RowIds(filteredAndSortedRows)
    /\ MayFail(Count(delErr))
    /\ faults' = faults + Count(delErr)
    /\ IF delErr
       THEN /\ toasts' = <<StoreError>>
            /\ UNCHANGED <<dbRows, rows>>
       ELSE /\ toasts' = <<"Row deleted">>
            /\ dbRows' = DeleteById(dbRows, rowId)
            /\ rows' = SelectSeq(rows, LAMBDA r : r.id # rowId)
    /\ tableDeletes' = <<>>
    /\ exported' = NoExport
    /\ UNCHANGED otherPages
    /\ UNCHANGED <<dbTable, dbColumns, nextColId, nextRowId, selectedTable, columns, viewVars,
                   engine>>

\* what the editor of a cell of column `col` of row r can hold when it loses
\* focus: the text it opened with, or what the user typed (a date picker for a
\* date column)
CellInputs(r, col) ==
    {startEditValue(Get(r.row_data, col.name))}
        \cup (IF col.type = "date" THEN {<<>>, IsoDate} ELSE EditInputs)

\* saveCell: setRows(prev => ...) applied to the page's rows
withCell(rs, rowId, colName, value) ==
    [i \in DOMAIN rs |->
        IF rs[i].id # rowId THEN rs[i]
        ELSE [rs[i] EXCEPT !.row_data = Put(rs[i].row_data, colName, value)]]

\* the rows the page holds once saveCell has ended: the local update comes
\* first and the outcome of the store update does not touch the rows
rowsAfterSave(rs, rowId, colName, value, updErr) == withCell(rs, rowId, colName, value)

\* the user opens the cell (startEditCell), types editValue, and the cell loses
\* focus (saveCell)
saveCell(rowId, ci, editValue, updErr) ==
    /\ selectedTable
    /\ rowId \in RowIds(filteredAndSortedRows)
    /\ ci \in DOMAIN columns
    /\ MayFail(Count(updErr))
    /\ faults' = faults + Count(updErr)
    /\ LET colName == columns[ci].name
           row == RowOf(rows, rowId)
           value == cellValue(editValue, TypeOfName(columns, colName))
           updated == Put(row.row_data, colName, value)
       IN  /\ editValue \in CellInputs(row, columns[ci])
           /\ rows' = rowsAfterSave(rows, rowId, colName, value, updErr)
           /\ dbRows' = IF updErr THEN dbRows ELSE UpdateRow(dbRows, rowId, updated)
           /\ toasts' = IF updErr THEN <<StoreError>> ELSE <<>>
    /\ tableDeletes' = <<>>
    /\ exported' = NoExport
    /\ UNCHANGED otherPages
    /\ UNCHANGED <<dbTable, dbColumns, nextColId, nextRowId, selectedTable, columns, viewVars,
                   engine>>

(***************************************************************************)
(* saveCell with its store update in flight.  saveCell sets the local rows *)
(* and sends the row's whole row_data to the store; it awaits the answer,  *)
(* but the page takes the next edit meanwhile, so several updates of a row *)
(* are in flight together and reach the store in any order.                *)
(***************************************************************************)
\* saveCell up to its await (lines 458-494)
saveCellSends(rowId, ci, editValue) ==
    /\ selectedTable
    /\ rowId \in RowIds(filteredAndSortedRows)
    /\ ci \in DOMAIN columns
    /\ Len(updates) < MaxUpdates
    /\ LET colName == columns[ci].name
           row == RowOf(rows, rowId)
           value == cellValue(editValue, TypeOfName(columns, colName))
           updated == Put(row.row_data, colName, value)
       IN  /\ editValue \in CellInputs(row, columns[ci])
           /\ rows' = withCell(rows, rowId, colName, value)
           /\ updates' = Append(updates, [id |-> rowId, row_data |-> updated, done |-> FALSE])
    /\ toasts' = <<>>
    /\ tableDeletes' = <<>>
    /\ exported' = NoExport
    /\ UNCHANGED <<dbVars, faults, selectedTable, columns, viewVars, engine>>
    /\ UNCHANGED <<userStore, moneyPages, documentsPage, createdTables, pdfExport, tableSwitch,
                   payments>>

\* from("user_rows").update({ row_data: updated }).eq("id", rowId) of line 494
\* reaches the store
userRowsUpdate(k) ==
    /\ k \in DOMAIN updates
    /\ ~updates[k].done
    /\ dbRows' = UpdateRow(dbRows, updates[k].id, updates[k].row_data)
    /\ updates' = [updates EXCEPT ![k].done = TRUE]
    /\ toasts' = <<>>
    /\ UNCHANGED <<dbTable, dbColumns, nextColId, nextRowId, selectedTable, columns, rows, viewVars,
                   tableDeletes, faults, engine, exported>>
    /\ UNCHANGED <<userStore, moneyPages, documentsPage, createdTables, pdfExport, tableSwitch,
                   payments>>

(***************************************************************************)
(* Search and sort.                                                        *)
(***************************************************************************)
setSearchQuery(q) ==
    /\ selectedTable
    /\ searchQuery' = q
    /\ tableDeletes' = <<>>
    /\ exported' = NoExport
    /\ toasts' = <<>>
    /\ UNCHANGED otherPages
    /\ UNCHANGED <<dbVars, faults, engine, selectedTable, columns, rows, sortColumnName,
                   sortDirection>>

\* a handler that keeps the direction when the sort moves to another column
handleSortKeepsDirection(colName) ==
    /\ selectedTable
    /\ \E i \in DOMAIN columns : columns[i].name = colName
    /\ IF sortColumnName = colName
       THEN /\ sortDirection' = (IF sortDirection = "asc" THEN "desc" ELSE "asc")
            /\ UNCHANGED sortColumnName
       ELSE /\ sortColumnName' = colName
            /\ UNCHANGED sortDirection
    /\ tableDeletes' = <<>>
    /\ exported' = NoExport
    /\ toasts' = <<>>
    /\ UNCHANGED otherPages
    /\ UNCHANGED <<dbVars, faults, engine, selectedTable, columns, rows, searchQuery>>

handleSort(colName) ==
    /\ selectedTable
    /\ \E i \in DOMAIN columns : columns[i].name = colName
    /\ IF sortColumnName = colName
       THEN /\ sortDirection' = (IF sortDirection = "asc" THEN "desc" ELSE "asc")
            /\ UNCHANGED sortColumnName
       ELSE /\ sortColumnName' = colName
            /\ sortDirection' = "asc"
    /\ tableDeletes' = <<>>
    /\ exported' = NoExport
    /\ toasts' = <<>>
    /\ UNCHANGED otherPages
    /\ UNCHANGED <<dbVars, faults, engine, selectedTable, columns, rows, searchQuery>>

(***************************************************************************)
(* Exports.                                                                *)
(***************************************************************************)
downloadSelectedTablePDF ==
    /\ IF ~selectedTable
       THEN /\ toasts' = <<"Select a table first">>
            /\ exported' = NoExport
       ELSE IF columns = <<>>
       THEN /\ toasts' = <<"No columns to export">>
            /\ exported' = NoExport
       ELSE /\ exported' = [kind |-> "pdf", head |-> exportHead(columns), body |-> pdfBody]
            /\ toasts' = <<"PDF downloaded">>
    /\ tableDeletes' = <<>>
    /\ UNCHANGED otherPages
    /\ UNCHANGED <<dbVars, faults, engine, selectedTable, columns, rows, viewVars>>

downloadSelectedTableExcel ==
    /\ IF ~selectedTable
       THEN /\ toasts' = <<"Select a table first">>
            /\ exported' = NoExport
       ELSE IF columns = <<>>
       THEN /\ toasts' = <<"No columns to export">>
            /\ exported' = NoExport
       ELSE /\ exported' = [kind |-> "xlsx", head |-> exportHead(columns), body |-> sheetData]
            /\ toasts' = <<"Excel downloaded">>
    /\ tableDeletes' = <<>>
    /\ UNCHANGED otherPages
    /\ UNCHANGED <<dbVars, faults, engine, selectedTable, columns, rows, viewVars>>

(***************************************************************************)
(* Specifications.                                                         *)
(*   Spec     the table handlers against a store whose calls may end in an *)
(*            error (at most MaxFaults of them)                            *)
(*   SpecOK   the table handlers, given a column name, against a store     *)
(*            that succeeds                                                *)
(*   SpecView search and sort over the tables of ViewTables                *)
(***************************************************************************)
NameInputs == ColumnNames \cup {""}
FailPoints == {"none", "user_rows", "user_columns", "user_tables"}
AllInputs == EditInputs \cup {IsoDate}

\* the column types and cell texts drawn against the failing store
FaultTypes == {"text", "number"}
FaultInputs == {<<>>, <<"1">>}

Next ==
    \/ \E failAt \in FailPoints : handleDeleteTable(failAt)
    \/ \E n \in NameInputs, t \in FaultTypes, e, ce, re \in BOOLEAN, f \in SUBSET RowIds(rows) :
          handleAddColumn(n, t, e, f, ce, re)
    \/ \E ci \in DOMAIN columns, e, ce, re \in BOOLEAN, f \in SUBSET RowIds(rows) :
          handleDeleteColumn(ci, e, f, ce, re)
    \/ \E ci \in DOMAIN columns, n \in NameInputs, t \in FaultTypes, e, ce, re \in BOOLEAN,
          f \in SUBSET RowIds(rows) :
          handleColumnUpdate(ci, n, t, e, f, ce, re)
    \/ \E e, ce, re \in BOOLEAN : handleAddRow(e, ce, re)
    \/ \E id \in RowIds(rows), e \in BOOLEAN : handleDeleteRow(id, e)
    \/ \E id \in RowIds(rows), ci \in DOMAIN columns, v \in FaultInputs, e \in BOOLEAN :
          saveCell(id, ci, v, e)

\* no date column is drawn against the failing store: the date parser is never
\* called, and one engine stands for both
InitStrict == Init /\ engine = "strict"

Spec == InitStrict /\ [][Next]_vars

NextOK ==
    \/ handleDeleteTable("none")
    \/ \E n \in ColumnNames, t \in ColumnTypes : handleAddColumn(n, t, FALSE, {}, FALSE, FALSE)
    \/ \E ci \in DOMAIN columns : handleDeleteColumn(ci, FALSE, {}, FALSE, FALSE)
    \/ \E ci \in DOMAIN columns, n \in ColumnNames, t \in ColumnTypes :
          handleColumnUpdate(ci, n, t, FALSE, {}, FALSE, FALSE)
    \/ handleAddRow(FALSE, FALSE, FALSE)
    \/ \E id \in RowIds(rows) : handleDeleteRow(id, FALSE)
    \/ \E id \in RowIds(rows), ci \in DOMAIN columns, v \in AllInputs : saveCell(id, ci, v, FALSE)

SpecOK == Init /\ [][NextOK]_vars

\* search and sort never call the date parser: one engine stands for both.
\* The tables search and sort are run on: column A of any type and a text
\* column B, and up to MaxViewRows rows in creation order, each holding under
\* A a value saveCell stores in a column of that type
ViewColumns(type) ==
    <<[id |-> 1, name |-> "A", type |-> type], [id |-> 2, name |-> "B", type |-> "text"]>>

StoredValues(type) ==
    {cellValue(e, type) : e \in (IF type = "date" THEN {<<>>, IsoDate} ELSE EditInputs)}

ViewRowData(type) ==
    {[k \in {"A", "B"} |-> IF k = "A" THEN a ELSE b] :
        a \in StoredValues(type), b \in {EmptyStr, Str(<<"A">>)}}

ViewTables(type) ==
    UNION {{[i \in 1..n |-> [id |-> i, row_data |-> f[i]]] : f \in [1..n -> ViewRowData(type)]} :
              n \in 0..MaxViewRows}

InitView ==
    /\ \E type \in ColumnTypes :
          /\ columns = ViewColumns(type)
          /\ rows \in ViewTables(type)
    /\ dbTable = TRUE
    /\ dbColumns = columns
    /\ dbRows = rows
    /\ nextColId = Len(columns) + 1
    /\ nextRowId = Len(rows) + 1
    /\ selectedTable = TRUE
    /\ searchQuery = <<>>
    /\ sortColumnName = null
    /\ sortDirection = "asc"
    /\ tableDeletes = <<>>
    /\ exported = NoExport
    /\ toasts = <<>>
    /\ faults = 0
    /\ engine = "strict"
    /\ createdTables = <<>>
    /\ NoMoneyPages
    /\ NoDocumentsPage
    /\ NothingElsewhere

NextView ==
    \/ \E q \in SearchInputs : setSearchQuery(q)
    \/ \E c \in ColumnNames : handleSort(c)

SpecView == InitView /\ [][NextView]_vars

\* the tables the dashboard and the analytics page are run on: up to MaxTables
\* tables with up to MaxMoneyCols columns and MaxMoneyRows rows between them,
\* every row holding a value under the name of each column of its table
MoneyNames ==
    { <<"A", "m", "o", "u", "n", "t">>,
      <<"I", "t", "e", "m">>,
      <<"C", "o", "s", "t">>,
      <<"T", "o", "t", "a", "l">>,
      <<"S", "a", "l", "e", "s", " ", "T", "a", "x">> }
MoneyTypes == {"text", "number", "currency"}
MoneyValues == {EmptyStr, Num(1), Str(<<"2">>)}

MoneyColumns(tables) ==
    UNION {[1..n -> [table_id : tables, name : MoneyNames, type : MoneyTypes]] :
              n \in 0..MaxMoneyCols}

NamesOf(cs, tid) == {cs[i].name : i \in {j \in DOMAIN cs : cs[j].table_id = tid}}

\* the day the rows of these tables were created on, and the day the
\* dashboard is opened on
MoneyDay == [year |-> 2026, month |-> 2, date |-> 26]

MoneyRows(tables, cs) ==
    UNION {[1..n -> UNION {[table_id : {t}, row_data : [NamesOf(cs, t) -> MoneyValues],
                            created_at : {MoneyDay}] :
                              t \in tables}] :
              n \in 0..MaxMoneyRows}

InitMoney ==
    /\ TablesPageOpened /\ engine = "strict"
    /\ userTables \in {1..n : n \in 0..MaxTables}
    /\ userColumns \in MoneyColumns(userTables)
    /\ userRows \in MoneyRows(userTables, userColumns)
    /\ tableRevenue = Zero
    /\ tableExpenses = Zero
    /\ tableChartData = <<>>
    /\ tableChartById = <<>>
    /\ tableAnalytics = {}
    /\ analyticsColumns = <<>>
    /\ analyticsRows = <<>>
    /\ mounted = {}
    /\ NoDocumentsPage
    /\ NothingElsewhere

NextMoney ==
    \/ DashboardLoad(dayKey(MoneyDay))
    \/ AnalyticsLoad

SpecMoney == InitMoney /\ [][NextMoney]_vars

\* the form of the documents page: the Create dialog and the handlers of
\* its inputs
NextForm ==
    \/ \E idx \in 1..MaxItems, field \in ItemFields, value \in QtyInputs \cup RateInputs :
          /\ field = "qty" => value \in QtyInputs
          /\ field = "rate" => value \in RateInputs
          /\ field = "description" => value = 0
          /\ updateItem(idx, field, value)
    \/ addItem
    \/ \E idx \in 1..MaxItems : removeItem(idx)
    \/ \E value \in TaxInputs : setTaxPercent(value)
    \/ \E value \in DocNoInputs : setDocNo(value)
    \/ \E value \in CustomerInputs : setCustomerName(value)
    \/ \E open \in BOOLEAN : setShowCreate(open)

InitDocs == TablesPageOpened /\ engine = "strict" /\ NoMoneyPages /\ NoDocumentsPage /\ NothingElsewhere

SpecForm == InitDocs /\ [][NextForm]_vars

\* the documents page with its store; the quantity typed here is 1, the rates
\* are 0 and 50, and the list of documents is always read back
StoredQtyInputs == {1}
StoredRateInputs == {0, 50}

NextDocs ==
    \/ \E idx \in 1..MaxItems, field \in ItemFields, value \in StoredQtyInputs \cup StoredRateInputs :
          /\ field = "qty" => value \in StoredQtyInputs
          /\ field = "rate" => value \in StoredRateInputs
          /\ field = "description" => value = 0
          /\ updateItem(idx, field, value)
    \/ addItem
    \/ \E idx \in 1..MaxItems : removeItem(idx)
    \/ \E value \in TaxInputs : setTaxPercent(value)
    \/ \E value \in DocNoInputs : setDocNo(value)
    \/ \E value \in CustomerInputs : setCustomerName(value)
    \/ \E open \in BOOLEAN : setShowCreate(open)
    \/ setShowEdit
    \/ \E insertFails \in BOOLEAN : save(insertFails, FALSE)
    \/ \E i \in 1..MaxDocs : openEdit(i)
    \/ \E updateFails \in BOOLEAN : saveEdit(updateFails, FALSE)
    \/ \E i \in 1..MaxDocs, deleteFails \in BOOLEAN : deleteDoc(i, deleteFails)

SpecDocs == InitDocs /\ [][NextDocs]_vars

\* the forms that validate their input: the table-name and column-name boxes
\* of the tables page and the document form, against a store whose writes may
\* end in an error
NextEntry ==
    \/ \E name \in TableNameInputs, insErr \in BOOLEAN : handleCreateTable(name, insErr)
    \/ \E n \in NameInputs, insErr \in BOOLEAN : handleAddColumn(n, "text", insErr, {}, FALSE, FALSE)
    \/ \E value \in DocNoInputs : setDocNo(value)
    \/ \E value \in CustomerInputs : setCustomerName(value)
    \/ \E open \in BOOLEAN : setShowCreate(open)
    \/ setShowEdit
    \/ \E insertFails \in BOOLEAN : save(insertFails, FALSE)
    \/ \E i \in 1..MaxDocs : openEdit(i)
    \/ \E updateFails \in BOOLEAN : saveEdit(updateFails, FALSE)

SpecEntry == InitDocs /\ [][NextEntry]_vars

\* exports of the tables search and sort are run on
NextExport ==
    \/ NextView
    \/ downloadSelectedTablePDF
    \/ downloadSelectedTableExcel

SpecExport == InitView /\ [][NextExport]_vars

(***************************************************************************)
(* Properties of the table data model (SpecOK: the store succeeds).        *)
(***************************************************************************)
HasEveryKey(rs, cols) ==
    \A i \in DOMAIN rs, j \in DOMAIN cols : cols[j].name \in DOMAIN rs[i].row_data

\* C1: after any sequence of column and row operations against a store that
\* succeeds, every row of the table, in the store and on the page, has a key
\* in its row_data for the name of every declared column.
C1_EveryRowHasEveryColumnKey == HasEveryKey(dbRows, dbColumns) /\ HasEveryKey(rows, columns)

\* C2: when handleAddColumn has added column C, every row that existed before
\* holds key C with the empty string as its value.
C2_BackfillIsEmpty ==
    [][\A n \in ColumnNames, t \in ColumnTypes :
          (toasts' = <<"Column added">> /\ handleAddColumn(n, t, FALSE, {}, FALSE, FALSE))
              => \A i \in DOMAIN dbRows :
                    /\ dbRows'[i].id = dbRows[i].id
                    /\ Get(dbRows'[i].row_data, n) = EmptyStr
                    /\ rows'[i] = dbRows'[i]]_vars

RECURSIVE SumOver(_, _)
SumOver(S, name) ==
    IF S = {} THEN 0
    ELSE LET i == CHOOSE i \in S : TRUE
         IN  toNumberSafe(Get(rows[i].row_data, name)) + SumOver(S \ {i}, name)

\* C4: every number or currency column has a total, the sum of its coerced
\* values over all rows of the table whatever the search term and the sort;
\* a text or date column has no total.
C4_ColumnTotals ==
    \A j \in DOMAIN columns :
        IF IsNumeric(columns[j].type)
        THEN /\ columns[j].name \in DOMAIN columnTotals
             /\ columnTotals[columns[j].name] = SumOver(DOMAIN rows, columns[j].name)
        ELSE columns[j].name \notin DOMAIN columnTotals

(***************************************************************************)
(* Properties of the error handling (Spec: store calls may fail).          *)
(***************************************************************************)
\* C5: handleDeleteTable issues the deletes in the order rows, columns,
\* table; the table record is never deleted while a row or column remains;
\* when the row delete or the column delete fails it is the last delete
\* issued, the table record stays and the failure is reported.
C5_DeleteTableOrder ==
    [][\A failAt \in FailPoints :
          (tableDeletes' # <<>> /\ handleDeleteTable(failAt))
              => /\ \E n \in 1..Len(DeleteOrder) : tableDeletes' = SubSeq(DeleteOrder, 1, n)
                 /\ ~dbTable' => (dbRows' = <<>> /\ dbColumns' = <<>>)
                 /\ failAt \in {"user_rows", "user_columns"}
                       => /\ tableDeletes'[Len(tableDeletes')] = failAt
                          /\ dbTable'
                          /\ Reported'
                          /\ ~Announced']_vars

\* the delete of the columns has failed after the rows of a table that had
\* rows were deleted: no delete of the table record, and an error toast
C5_Witness ==
    /\ tableDeletes = <<"user_rows", "user_columns">>
    /\ toasts = <<StoreError>>
    /\ dbTable
    /\ rows # <<>>
    /\ dbRows = <<>>
    /\ dbColumns # <<>>

\* C6: when the store update of saveCell ends in an error, the rows of the
\* page are what they were before the edit.
C6_FailedSaveLeavesRowsUnchanged ==
    [][\A id \in RowIds(rows), ci \in DOMAIN columns, v \in FaultInputs :
          (toasts' = <<StoreError>> /\ saveCell(id, ci, v, TRUE)) => rows' = rows]_vars

\* C7: when one of the per-row updates of handleAddColumn, handleDeleteColumn
\* or handleColumnUpdate ends in an error, an error is reported and no success
\* is announced.
C7_PartialFailureReported ==
    [][\A failed \in (SUBSET RowIds(rows)) \ {{}} :
          (/\ faults' > faults
           /\ \/ \E n \in ColumnNames, t \in FaultTypes :
                    handleAddColumn(n, t, FALSE, failed, FALSE, FALSE)
              \/ \E ci \in DOMAIN columns :
                    handleDeleteColumn(ci, FALSE, failed, FALSE, FALSE)
              \/ \E ci \in DOMAIN columns, n \in ColumnNames, t \in FaultTypes :
                    handleColumnUpdate(ci, n, t, FALSE, failed, FALSE, FALSE))
              => Reported' /\ ~Announced']_vars

(***************************************************************************)
(* Properties of the query engine (SpecView).                              *)
(***************************************************************************)
\* the view under the empty search term and the current sort
viewOfEmptyTerm ==
    filteredAndSortedRowsOf(rows, columns, <<>>, sortColumnName, sortDirection)

\* some cell of r, under a declared column, contains S whatever the case
ContainsTerm(r, S) ==
    \E j \in DOMAIN columns :
        includes(toLowerCase(String(OrEmpty(Get(r.row_data, columns[j].name)))), toLowerCase(S))

\* the term is empty or made of white space only
Blank(S) == trim(S) = <<>>

\* C8 as stated: for every search term S the view is a subset of the view for
\* the empty term, every row of the view has a cell that contains S whatever
\* the case, and the empty term matches all rows.
C8_Search ==
    /\ Range(filteredAndSortedRows) \subseteq Range(viewOfEmptyTerm)
    /\ \A r \in Range(filteredAndSortedRows) : ContainsTerm(r, searchQuery)
    /\ searchQuery = <<>> => Range(filteredAndSortedRows) = Range(rows)

\* C8, amended: the view is a subset of the view for the empty term; for a
\* term that is not blank every row of the view has a cell that contains the
\* term whatever the case; a blank term (empty or white space only) matches
\* all rows.
C8_SearchNonBlank ==
    /\ Range(filteredAndSortedRows) \subseteq Range(viewOfEmptyTerm)
    /\ ~Blank(searchQuery) => \A r \in Range(filteredAndSortedRows) : ContainsTerm(r, searchQuery)
    /\ Blank(searchQuery) => Range(filteredAndSortedRows) = Range(rows)

\* the term "a" keeps some rows of the table (those that hold "A") and drops
\* others
C8_Witness ==
    /\ searchQuery = <<"a">>
    /\ filteredAndSortedRows # <<>>
    /\ Len(filteredAndSortedRows) < Len(rows)

Reverse(s) == [i \in 1..Len(s) |-> s[Len(s) + 1 - i]]

\* the view of the current rows and search term sorted on column c
viewSorted(c, dir) == filteredAndSortedRowsOf(rows, columns, searchQuery, c, dir)

\* no two rows of the filtered set compare equal on column c
NoTies(c) ==
    LET list == filterRows(rows, searchQuery)
    IN  \A i, j \in DOMAIN list :
           i # j => compareRows(list[i], list[j], c, TypeOfName(columns, c), "asc") # 0

\* C9 as stated: the view sorted descending on the sort column is the exact
\* reverse of the view sorted ascending on it.
C9_DescendingIsReverse ==
    sortColumnName # null
        => viewSorted(sortColumnName, "desc") = Reverse(viewSorted(sortColumnName, "asc"))

\* C9, amended: when no two rows of the filtered set compare equal on the
\* sort column, the view sorted descending on it is the exact reverse of the
\* view sorted ascending on it.
C9_DescendingIsReverseWithoutTies ==
    (sortColumnName # null /\ NoTies(sortColumnName))
        => viewSorted(sortColumnName, "desc") = Reverse(viewSorted(sortColumnName, "asc"))

\* three rows that differ on A are shown in descending order under a search
\* term that is not blank
C9_Witness ==
    /\ sortColumnName = "A"
    /\ sortDirection = "desc"
    /\ ~Blank(searchQuery)
    /\ Len(filteredAndSortedRows) = 3
    /\ NoTies("A")

\* C10: two rows of the view that compare equal on the active sort column
\* are in creation order (the order of their ids), in both directions; with
\* no active sort column the whole view is in creation order.
C10_SortIsStable ==
    \A i, j \in DOMAIN filteredAndSortedRows :
        (/\ i < j
         /\ sortColumnName # null =>
               compareRows(filteredAndSortedRows[i], filteredAndSortedRows[j], sortColumnName,
                           TypeOfName(columns, sortColumnName), sortDirection) = 0)
            => filteredAndSortedRows[i].id < filteredAndSortedRows[j].id

\* a descending view on A of three rows: the first and the last row created
\* compare equal, the second row created sorts before both
C10_Witness ==
    /\ sortColumnName = "A"
    /\ sortDirection = "desc"
    /\ Len(filteredAndSortedRows) = 3
    /\ filteredAndSortedRows[1].id = 2
    /\ filteredAndSortedRows[2].id = 1
    /\ filteredAndSortedRows[3].id = 3


\* C11: handleSort(c) on the sorted column flips the direction and keeps the
\* column; on another column (or with no sort) it makes c the sort column and
\* the direction ascending; the sort state names at most one column, and
\* nothing but handleSort changes it.
C11_SortToggle ==
    [][/\ \A c \in ColumnNames :
             handleSort(c)
                 => /\ sortColumnName' = c
                    /\ sortDirection' = IF sortColumnName # c THEN "asc"
                                        ELSE IF sortDirection = "asc" THEN "desc" ELSE "asc"
       /\ sortColumnName' \in ColumnNames \cup {null}
       /\ sortDirection' \in {"asc", "desc"}
       /\ <<sortColumnName, sortDirection>>' # <<sortColumnName, sortDirection>>
             => \E c \in ColumnNames : handleSort(c)]_vars

\* the sort is on B, descending, under a search term: B was sorted and then
\* toggled
C11_Witness ==
    /\ sortColumnName = "B"
    /\ sortDirection = "desc"
    /\ searchQuery # <<>>


(***************************************************************************)
(* Properties of the export engine (SpecExport).                           *)
(***************************************************************************)
\* the cell an export of `kind` writes for value v of a column of `type`
ExportCell(kind, v, type) == IF kind = "pdf" THEN pdfCell(v, type) ELSE sheetCell(v, type)

\* the cell an export of `kind` writes for the total n of a column of `type`
ExportTotal(kind, n, type) ==
    IF kind = "xlsx" THEN Num(n)
    ELSE IF type = "currency" THEN Str(moneyPDF(Num(n)))
    ELSE Str(toLocaleString(n))

\* C12: the data rows of a saved PDF or spreadsheet are the rows of the
\* current filtered and sorted view, cell by cell and in view order; the only
\* other row is the totals row, which holds for every number or currency
\* column its total over all rows of the table.
C12_ExportRows ==
    exported.kind \in {"pdf", "xlsx"} =>
        LET view == filteredAndSortedRows
            body == exported.body
        IN  /\ Len(body) \in {Len(view), Len(view) + 1}
            /\ \A i \in DOMAIN view, j \in DOMAIN columns :
                  body[i][j] = ExportCell(exported.kind,
                                          Get(view[i].row_data, columns[j].name), columns[j].type)
            /\ Len(body) = Len(view) + 1 =>
                  \A j \in DOMAIN columns :
                      IsNumeric(columns[j].type) =>
                          body[Len(body)][j]
                              = ExportTotal(exported.kind, SumOver(DOMAIN rows, columns[j].name),
                                            columns[j].type)

\* a spreadsheet saved under a search term that hides a row with a number:
\* one data row, and a totals row that counts the hidden row
C12_Witness ==
    /\ exported.kind = "xlsx"
    /\ searchQuery = <<"a">>
    /\ sortColumnName = "A"
    /\ Len(rows) = 3
    /\ Len(filteredAndSortedRows) = 1
    /\ Len(exported.body) = 2
    /\ exported.body[2][1] = Num(2)


(***************************************************************************)
(* C13: on the dashboard a column enters the revenue and expense totals    *)
(* only if its type is number or currency and its name matches the amount  *)
(* pattern or the expense pattern; a column matching the expense pattern   *)
(* is an expense even when it matches the amount pattern too, any other    *)
(* entering column is revenue, and every other column adds to neither      *)
(* total.  So once the dashboard has loaded, its revenue is the sum of the *)
(* cells of the revenue columns and its expenses the sum of the cells of   *)
(* the expense columns, taken over every row and column of the same table. *)
(***************************************************************************)
\* the cells of the store: a row and a column of its table
MoneyCells ==
    {p \in (DOMAIN userRows) \X (DOMAIN userColumns) :
        userRows[p[1]].table_id = userColumns[p[2]].table_id}

IsRevenueColumn(c) ==
    /\ c.type \in {"number", "currency"}
    /\ test(amountNameRegex, c.name)
    /\ ~test(expenseNameRegex, c.name)

IsExpenseColumn(c) ==
    /\ c.type \in {"number", "currency"}
    /\ test(expenseNameRegex, c.name)

RECURSIVE SumCells(_)
SumCells(cells) ==
    IF cells = {} THEN 0
    ELSE LET p == CHOOSE q \in cells : TRUE
         IN  toNumberSafe(Get(userRows[p[1]].row_data, userColumns[p[2]].name))
             + SumCells(cells \ {p})

C13_DashboardClassification ==
    "dashboard" \in mounted =>
        /\ tableRevenue = Double(SumCells({p \in MoneyCells : IsRevenueColumn(userColumns[p[2]])}))
        /\ tableExpenses = Double(SumCells({p \in MoneyCells : IsExpenseColumn(userColumns[p[2]])}))

\* the dashboard has loaded a table with a currency column Amount and a text
\* column Item, and a row holding 1 under Amount and 2 under Item: revenue is 1
C13_Witness ==
    /\ "dashboard" \in mounted
    /\ userColumns = <<[table_id |-> 1, name |-> <<"A", "m", "o", "u", "n", "t">>, type |-> "currency"],
                       [table_id |-> 1, name |-> <<"I", "t", "e", "m">>, type |-> "text"]>>
    /\ Len(userRows) = 1
    /\ userRows[1].row_data[<<"A", "m", "o", "u", "n", "t">>] = Num(1)
    /\ userRows[1].row_data[<<"I", "t", "e", "m">>] = Str(<<"2">>)
    /\ tableRevenue = Double(1)
    /\ tableExpenses = Zero


(***************************************************************************)
(* C14: the dashboard and the analytics page (and the PDF it prints from   *)
(* moneySummary) classify columns the same way, so once both have loaded   *)
(* the same tables they show the same revenue and the same expense total.  *)
(***************************************************************************)
C14_SameTotalsOnBothPages ==
    {"dashboard", "analytics"} \subseteq mounted =>
        /\ Double(moneySummary.revenue) = tableRevenue
        /\ Double(moneySummary.expense) = tableExpenses


(***************************************************************************)
(* C15: after recalcTotals the subtotal is the sum of the item amounts,    *)
(* the tax amount is subtotal x tax percent / 100 and the grand total is   *)
(* subtotal + tax amount; for the items {qty 2, rate 50} and {qty 1, rate  *)
(* 30} with tax 10 this gives 130, 13 and 143.                             *)
(***************************************************************************)
RECURSIVE AmountsOf(_, _)
AmountsOf(items, S) ==
    IF S = {} THEN 0
    ELSE LET i == CHOOSE j \in S : TRUE IN items[i].amount + AmountsOf(items, S \ {i})

\* the totals are the ones the items and the percent give
TotalsOf(f) ==
    /\ f.totals.subtotal = AmountsOf(f.items, DOMAIN f.items)
    /\ f.totals.tax_amount * 100 = f.totals.subtotal * f.totals.tax_percent
    /\ f.totals.total = f.totals.subtotal + f.totals.tax_amount

\* the step calls recalcTotals
CallsRecalcTotals ==
    \/ \E idx \in 1..MaxItems, field \in ItemFields, value \in QtyInputs \cup RateInputs :
          updateItem(idx, field, value)
    \/ addItem
    \/ \E idx \in 1..MaxItems : removeItem(idx)
    \/ \E value \in TaxInputs : setTaxPercent(value)

ExampleItems ==
    <<[qty |-> 2, rate |-> 50, amount |-> 100, ref |-> NoRef],
      [qty |-> 1, rate |-> 30, amount |-> 30, ref |-> NoRef]>>

C15_RecalcTotals ==
    [][CallsRecalcTotals =>
          /\ TotalsOf(form')
          /\ (form'.items = ExampleItems /\ form'.totals.tax_percent = 10)
                => /\ form'.totals.subtotal = 130
                   /\ form'.totals.tax_amount = 13
                   /\ form'.totals.total = 143]_vars

\* the form holds the two items of the example and a tax of 10 percent
C15_Witness ==
    /\ form.items = ExampleItems
    /\ form.totals = [subtotal |-> 130, tax_percent |-> 10, tax_amount |-> 13, total |-> 143]


(***************************************************************************)
(* C16: the totals of the document form are never stale: in every state    *)
(* reached by adding, editing and removing items, changing the tax percent *)
(* and opening a stored document for edit, the held subtotal, tax amount   *)
(* and total are the ones the held items and tax percent give.             *)
(***************************************************************************)
C16_TotalsNeverStale == TotalsOf(form)


(***************************************************************************)
(* C17: the empty marker.  Saving a cell of a number or currency column    *)
(* with empty input stores the empty string, not 0, in the row; retyping a *)
(* column to number or currency keeps an empty value as the empty string;  *)
(* and the totals read an empty cell as 0: the total of a column is the    *)
(* sum over the rows whose cell is not empty.                              *)
(***************************************************************************)
EmptyCellsCountAsZero ==
    \A j \in DOMAIN columns :
        IsNumeric(columns[j].type) =>
            columnTotals[columns[j].name]
                = SumOver({i \in DOMAIN rows : Get(rows[i].row_data, columns[j].name) # EmptyStr},
                          columns[j].name)

C17_EmptyMarker ==
    /\ []EmptyCellsCountAsZero
    /\ [][/\ \A id \in RowIds(rows), ci \in DOMAIN columns :
                 (/\ IsNumeric(columns[ci].type)
                  /\ toasts' = <<>>
                  /\ Len(rows') = Len(rows)
                  /\ saveCell(id, ci, <<>>, FALSE))
                     => /\ Get(RowOf(rows', id).row_data, columns[ci].name) = EmptyStr
                        /\ Get(RowOf(dbRows', id).row_data, columns[ci].name) = EmptyStr
          /\ \A ci \in DOMAIN columns :
                 LET nameA == columns[ci].name
                     nameB == columns'[ci].name
                     typeB == columns'[ci].type
                 IN  (/\ toasts' = <<"Column updated">>
                      /\ IsNumeric(typeB)
                      /\ handleColumnUpdate(ci, nameB, typeB, FALSE, {}, FALSE, FALSE))
                         => \A i \in DOMAIN rows :
                               Get(rows[i].row_data, nameA) = EmptyStr
                                   => /\ Get(rows'[i].row_data, nameB) = EmptyStr
                                      /\ Get(dbRows'[i].row_data, nameB) = EmptyStr]_vars

\* a column has just been retyped to a number or currency column; one row
\* holds the empty string under it and another the number 1, and its total is 1
C17_Witness ==
    /\ toasts = <<"Column updated">>
    /\ \E j \in DOMAIN columns :
          /\ IsNumeric(columns[j].type)
          /\ \E i, k \in DOMAIN rows :
                /\ Get(rows[i].row_data, columns[j].name) = EmptyStr
                /\ Get(rows[k].row_data, columns[j].name) = Num(1)
                /\ Get(dbRows[i].row_data, columns[j].name) = EmptyStr
          /\ columnTotals[columns[j].name] = 1


(***************************************************************************)
(* C18: when handleDeleteColumn has completed (it has announced "Column    *)
(* deleted"), the column is gone from the store and no row of the table    *)
(* has a key of the deleted column's name.                                 *)
(***************************************************************************)
C18_DeleteColumnRemovesKey ==
    [][\A ci \in DOMAIN columns, failed \in SUBSET RowIds(rows), colErr, rowErr \in BOOLEAN :
          (/\ toasts' # <<>>
           /\ toasts'[1] = "Column deleted"
           /\ handleDeleteColumn(ci, FALSE, failed, colErr, rowErr))
              => /\ \A d \in Range(dbColumns') : d.id # columns[ci].id
                 /\ \A r \in Range(dbRows') : columns[ci].name \notin DOMAIN r.row_data]_vars


(***************************************************************************)
(* C19: handleAddRow creates one row, and the row_data of that row has a   *)
(* key for the name of every current column of the table and for nothing   *)
(* else, each holding the empty string; the page shows the new row.        *)
(***************************************************************************)
C19_NewRowHasEveryColumnKey ==
    [][(nextRowId' = nextRowId + 1 /\ handleAddRow(FALSE, FALSE, FALSE))
          => /\ Len(dbRows') = Len(dbRows) + 1
             /\ SubSeq(dbRows', 1, Len(dbRows)) = dbRows
             /\ LET created == dbRows'[Len(dbRows')].row_data
                IN  /\ DOMAIN created = {dbColumns[j].name : j \in DOMAIN dbColumns}
                    /\ \A j \in DOMAIN dbColumns : created[dbColumns[j].name] = EmptyStr
             /\ rows' = dbRows']_vars

\* a second row has just been added to a table of two columns A and B, whose
\* first row holds 1 under A: the new row holds the empty string under both
C19_Witness ==
    /\ toasts = <<>>
    /\ {columns[j].name : j \in DOMAIN columns} = {"A", "B"}
    /\ Len(rows) = 2
    /\ Get(rows[1].row_data, "A") = Num(1)
    /\ rows[2].row_data = [name \in {"A", "B"} |-> EmptyStr]
    /\ dbRows = rows


(***************************************************************************)
(* C20: validation errors abort before any store mutation.  Creating a     *)
(* table with an empty or blank name, adding a column with an empty name,  *)
(* and saving or updating a document with an empty document number or     *)
(* customer name each show the validation message and leave every table of *)
(* the store as it was.                                                    *)
(***************************************************************************)
StoreUnchanged == UNCHANGED <<createdTables, dbVars, invoices, nextDocId, userStore>>

BlankText(s) == \A i \in DOMAIN s : s[i] = " "

C20_ValidationAbortsBeforeStore ==
    [][/\ \A name \in TableNameInputs, insErr \in BOOLEAN :
              (BlankText(name) /\ handleCreateTable(name, insErr))
                  => toasts' = <<"Please enter a table name">> /\ StoreUnchanged
       /\ \A insErr \in BOOLEAN :
              handleAddColumn("", "text", insErr, {}, FALSE, FALSE)
                  => toasts' = <<"Please enter a column name">> /\ StoreUnchanged
       /\ \A fails \in BOOLEAN :
              (/\ BlankText(form.doc_no) \/ BlankText(form.customer_name)
               /\ save(fails, FALSE) \/ (editingId # NoDoc /\ saveEdit(fails, FALSE)))
                  => /\ toasts' = <<IF BlankText(form.doc_no) THEN "Document No. required"
                                    ELSE "Customer name required">>
                     /\ StoreUnchanged]_vars

\* the update of a stored document has just been refused for its customer name
C20_Witness ==
    /\ toasts = <<"Customer name required">>
    /\ showEdit
    /\ editingId # NoDoc
    /\ form.customer_name = <<>>
    /\ Len(invoices) = 1
    /\ invoices[1].customer_name = <<"a">>


(***************************************************************************)
(* The PDF export of a document, with every outcome of the logo fetch.     *)
(***************************************************************************)
NextPdf ==
    \/ \E data \in BrandingData : loadBranding(data)
    \/ \E value \in DocNoInputs : setDocNo(value)
    \/ \E value \in CustomerInputs : setCustomerName(value)
    \/ \E open \in BOOLEAN : setShowCreate(open)
    \/ save(FALSE, FALSE)
    \/ \E i \in 1..MaxDocs, served \in Served, addImageThrows \in BOOLEAN :
          downloadPDF(i, served, addImageThrows)

SpecPdf == InitDocs /\ [][NextPdf]_vars

\* C21: whatever the fetch of the logo ends in without yielding an image
\* (a network error, an error response, a body that is no image), a click on
\* Download saves the PDF of the document, drawn without a logo, and
\* announces it.
NoImageServed == {"network error", "404 application/json", "text/html"}

C21_LogoFailureNeverAborts ==
    [][\A i \in 1..MaxDocs, served \in NoImageServed, addImageThrows \in BOOLEAN :
          downloadPDF(i, served, addImageThrows)
             => /\ [doc |-> docs[i].id, logo |-> FALSE] \in downloads'
                /\ toasts' = <<"PDF downloaded">>]_vars


(***************************************************************************)
(* The merge of the dashboard, on amounts with a fraction: the store       *)
(* returns the columns and the rows in no stated order (the queries of     *)
(* lines 253-256 and 280-283 ask for none), so the tables are drawn in     *)
(* every order.                                                            *)
(***************************************************************************)
MergeNames == {<<"A", "m", "o", "u", "n", "t">>, <<"C", "o", "s", "t">>}
MergeValues == {Str(<<"0", ".", "1">>), Str(<<"0", ".", "2">>), Str(<<"0", ".", "3">>)}
\* the day the dashboard is opened on, and the days the rows were created on
MergeToday == [year |-> 2026, month |-> 2, date |-> 27]
MergeDays == {MoneyDay, MergeToday}

MergeColumns(tables) ==
    UNION {[1..n -> [table_id : tables, name : MergeNames, type : {"currency"}]] :
              n \in 0..MaxMoneyCols}

MergeRows(tables, cs) ==
    UNION {[1..n -> UNION {[table_id : {t}, row_data : [NamesOf(cs, t) -> MergeValues],
                            created_at : MergeDays] :
                              t \in tables}] :
              n \in 0..MaxMergeRows}

InitMerge ==
    /\ TablesPageOpened /\ engine = "strict"
    /\ userTables \in {1..n : n \in 0..MaxTables}
    /\ userColumns \in MergeColumns(userTables)
    /\ userRows \in MergeRows(userTables, userColumns)
    /\ tableRevenue = Zero
    /\ tableExpenses = Zero
    /\ tableChartData = <<>>
    /\ tableChartById = <<>>
    /\ tableAnalytics = {}
    /\ analyticsColumns = <<>>
    /\ analyticsRows = <<>>
    /\ mounted = {}
    /\ NoDocumentsPage
    /\ NothingElsewhere

NextMerge == DashboardLoad(dayKey(MergeToday))

SpecMerge == InitMerge /\ [][NextMerge]_vars

\* C22: once the dashboard has loaded, its overall revenue and expenses,
\* the sums of each table and the sums of each day, overall and per table,
\* are the ones the load gives for every other order in which the store
\* may have returned the same columns and the same rows.
Orders(s) == {[i \in DOMAIN s |-> s[p[i]]] : p \in Permutations(DOMAIN s)}

C22_MergeIsOrderInsensitive ==
    "dashboard" \in mounted =>
        \A colsData \in Orders(userColumns), rowsData \in Orders(userRows) :
            \A adds \in {addendsOf(colsData, rowsData)} :
                /\ tableRevenue = tableMoney(adds, "revenue")
                /\ tableExpenses = tableMoney(adds, "expense")
                /\ tableAnalytics = {perTableMoney(adds, tid) : tid \in userTables}
                /\ tableChartData =
                      mapToChartPoints(adds, userTables,
                                       daysOf(adds, userTables, dayKey(MergeToday)))
                /\ tableChartById =
                      [tid \in userTables |->
                          mapToChartPoints(adds, {tid}, daysOf(adds, {tid}, dayKey(MergeToday)))]


(***************************************************************************)
(* C23: a saved PDF or spreadsheet ends in a totals row whenever a number  *)
(* or currency column of the table has a total, that is an entry of        *)
(* columnTotals, and has no totals row when the table has no number or     *)
(* currency column.                                                        *)
(***************************************************************************)
EndsInTotalsRow == Len(exported.body) = Len(filteredAndSortedRows) + 1

C23_TotalsRow ==
    exported.kind \in {"pdf", "xlsx"} =>
        /\ DOMAIN columnTotals # {} => EndsInTotalsRow
        /\ (\A j \in DOMAIN columns : ~IsNumeric(columns[j].type)) => ~EndsInTotalsRow

\* C23, amended: the totals row is there exactly when the table has a row
\* and a number or currency column, whatever the search term shows of it
C23_TotalsRowOfNonEmptyTable ==
    exported.kind \in {"pdf", "xlsx"} =>
        (EndsInTotalsRow <=> rows # <<>> /\ \E j \in DOMAIN columns : IsNumeric(columns[j].type))

\* a PDF of a table with a number column saved under a search term that
\* hides every row: the totals row is its only row
C23_Witness ==
    /\ exported.kind = "pdf"
    /\ \E j \in DOMAIN columns : IsNumeric(columns[j].type)
    /\ rows # <<>>
    /\ filteredAndSortedRows = <<>>
    /\ Len(exported.body) = 1


(***************************************************************************)
(* The spreadsheet of a table whose columns are added, renamed and         *)
(* deleted; a name may be given to two columns.                            *)
(***************************************************************************)
NextSheet ==
    \/ \E n \in ColumnNames, t \in {"text", "number"} :
          handleAddColumn(n, t, FALSE, {}, FALSE, FALSE)
    \/ \E ci \in DOMAIN columns : handleDeleteColumn(ci, FALSE, {}, FALSE, FALSE)
    \/ \E ci \in DOMAIN columns, n \in ColumnNames :
          handleColumnUpdate(ci, n, columns[ci].type, FALSE, {}, FALSE, FALSE)
    \/ handleAddRow(FALSE, FALSE, FALSE)
    \/ downloadSelectedTableExcel

SpecSheet == InitStrict /\ [][NextSheet]_vars

\* C24: the first row of a saved spreadsheet is the list of the names of the
\* table's columns, one cell for each column and in column order, also when
\* two columns have the same name.
C24_SheetHeaderIsColumnNames ==
    exported.kind = "xlsx" =>
        /\ Len(exported.head) = Len(columns)
        /\ \A j \in DOMAIN columns : exported.head[j] = columns[j].name

\* a spreadsheet saved of a table with two columns named A
C24_Witness ==
    /\ exported.kind = "xlsx"
    /\ Len(columns) = 2
    /\ columns[1].name = "A"
    /\ columns[2].name = "A"
    /\ exported.head = <<"A", "A">>


(***************************************************************************)
(* The coercion of the table editor, applied by a change of column type    *)
(* to the texts a text column holds: a number with a thousands separator,  *)
(* a number with the rupee sign, a word.                                   *)
(***************************************************************************)
CoerceTexts == {<<>>, <<"1">>, <<"1", ",", "0">>, <<"₹", "1">>, <<"a">>}

CoerceTables ==
    UNION {{[i \in 1..n |-> [id |-> i, row_data |-> [k \in {"A"} |-> Str(f[i])]]] :
               f \in [1..n -> CoerceTexts]} : n \in 0..MaxViewRows}

InitCoerce ==
    /\ columns = <<[id |-> 1, name |-> "A", type |-> "text"]>>
    /\ rows \in CoerceTables
    /\ dbTable = TRUE
    /\ dbColumns = columns
    /\ dbRows = rows
    /\ nextColId = Len(columns) + 1
    /\ nextRowId = Len(rows) + 1
    /\ selectedTable = TRUE
    /\ searchQuery = <<>>
    /\ sortColumnName = null
    /\ sortDirection = "asc"
    /\ tableDeletes = <<>>
    /\ exported = NoExport
    /\ toasts = <<>>
    /\ faults = 0
    /\ engine = "strict"
    /\ createdTables = <<>>
    /\ NoMoneyPages
    /\ NoDocumentsPage
    /\ NothingElsewhere

NextCoerce ==
    \E t \in {"text", "number", "currency"} :
        handleColumnUpdate(1, "A", t, FALSE, {}, FALSE, FALSE)

SpecCoerce == InitCoerce /\ [][NextCoerce]_vars

\* C25: the number the table editor makes of a value is 0 for an empty or
\* absent value, the value itself for a number, and for a text the number
\* read from it once thousands separators and currency signs are taken out,
\* or 0 when what is left is no number.  So when a column becomes a number
\* or currency column, every cell that held a value holds that number.
ClaimedNumber(v) ==
    IF v = Undefined \/ v = EmptyStr THEN 0
    ELSE IF v.t = "n" THEN v.n
    ELSE LET p == NumberOf(SelectSeq(v.s, LAMBDA c : c \notin {",", "₹"}))
         IN  IF p.finite THEN p.n ELSE 0

C25_ToNumberSafe ==
    [][\A i \in DOMAIN rows :
          IsNumeric(columns'[1].type) /\ toasts' = <<"Column updated">>
             => LET v == rows[i].row_data["A"]
                IN  rows'[i].row_data["A"]
                       = (IF v = EmptyStr THEN EmptyStr ELSE Num(ClaimedNumber(v)))]_vars


(***************************************************************************)
(* C26: every item the document form holds has amount = qty x rate, after  *)
(* any sequence of addItem, updateItem and removeItem on the form the      *)
(* Create dialog opens with.                                               *)
(***************************************************************************)
C26_AmountIsQtyTimesRate ==
    \A i \in DOMAIN form.items : form.items[i].amount = form.items[i].qty * form.items[i].rate

\* two items: the first was given rate 50 and then qty 2, the second is as
\* addItem made it
C26_Witness ==
    /\ Len(form.items) = 2
    /\ form.items[1].qty = 2
    /\ form.items[1].rate = 50
    /\ form.items[1].amount = 100
    /\ form.items[2].amount = 0


(***************************************************************************)
(* C27: a column update of column X leaves alone, in every row, the value  *)
(* under the name of every other column of the table that is not named as  *)
(* X was, whatever new name X is given.                                    *)
(***************************************************************************)
C27_RenameFrame ==
    [][\A ci \in DOMAIN columns :
          LET nameA == columns[ci].name
              nameB == columns'[ci].name
              typeB == columns'[ci].type
          IN  (/\ toasts' = <<"Column updated">>
               /\ handleColumnUpdate(ci, nameB, typeB, FALSE, {}, FALSE, FALSE))
                  => \A i \in DOMAIN rows, cj \in DOMAIN columns \ {ci} :
                        columns[cj].name # nameA
                           => Get(rows'[i].row_data, columns[cj].name)
                                 = Get(rows[i].row_data, columns[cj].name)]_vars


(***************************************************************************)
(* Switching between two tables whose loads are in flight together.        *)
(***************************************************************************)
SwitchNames == {<<"I", "t", "e", "m">>, <<"C", "o", "s", "t">>}

SwitchColumns ==
    UNION {[1..n -> [table_id : 1..MaxTables, name : SwitchNames, type : {"text"}]] :
              n \in 0..MaxMoneyCols}

SwitchRows(cs) ==
    UNION {[1..n -> UNION {[table_id : {t}, row_data : [NamesOf(cs, t) -> {EmptyStr}],
                            created_at : {MoneyDay}] : t \in 1..MaxTables}] :
              n \in 0..1}

InitSwitch ==
    /\ TablesPageOpened /\ engine = "strict"
    /\ userTables = 1..MaxTables
    /\ userColumns \in SwitchColumns
    /\ userRows \in SwitchRows(userColumns)
    /\ tableRevenue = Zero
    /\ tableExpenses = Zero
    /\ tableChartData = <<>>
    /\ tableChartById = <<>>
    /\ tableAnalytics = {}
    /\ analyticsColumns = <<>>
    /\ analyticsRows = <<>>
    /\ mounted = {}
    /\ NoDocumentsPage
    /\ NothingElsewhere

NextSwitch ==
    \/ \E tid \in 1..MaxTables : setSelectedTable(tid)
    \/ \E k \in 1..MaxLoads : loadTableData(k)

SpecSwitch == InitSwitch /\ [][NextSwitch]_vars

\* C28: once every call of loadTableData has ended, the page holds the
\* columns and the rows of the table that is selected.
AllLoaded == loads # <<>> /\ \A k \in DOMAIN loads : loads[k].done

C28_ShowsSelectedTable ==
    AllLoaded =>
        /\ columns = columnsOfTable(selectedId)
        /\ rows = rowsOfTable(selectedId)


(***************************************************************************)
(* Edits of the cells of one row, saved on blur without waiting for the    *)
(* store.                                                                  *)
(***************************************************************************)
InitBlur ==
    /\ columns = ViewColumns("text")
    /\ rows = <<[id |-> 1, row_data |-> [k \in {"A", "B"} |-> EmptyStr]]>>
    /\ dbTable = TRUE
    /\ dbColumns = columns
    /\ dbRows = rows
    /\ nextColId = Len(columns) + 1
    /\ nextRowId = Len(rows) + 1
    /\ selectedTable = TRUE
    /\ searchQuery = <<>>
    /\ sortColumnName = null
    /\ sortDirection = "asc"
    /\ tableDeletes = <<>>
    /\ exported = NoExport
    /\ toasts = <<>>
    /\ faults = 0
    /\ engine = "strict"
    /\ createdTables = <<>>
    /\ NoMoneyPages
    /\ NoDocumentsPage
    /\ NothingElsewhere

NextBlur ==
    \/ \E ci \in DOMAIN columns, v \in EditInputs : saveCellSends(1, ci, v)
    \/ \E k \in 1..MaxUpdates : userRowsUpdate(k)

SpecBlur == InitBlur /\ [][NextBlur]_vars

\* C29: once every update saveCell has sent has reached the store, the
\* store holds for the row the row_data the page holds.
AllStored == updates # <<>> /\ \A k \in DOMAIN updates : updates[k].done

C29_NoLostCellEdit == AllStored => dbRows = rows


(***************************************************************************)
(* Requests to the payment webhook: sent by the gateway, which holds the   *)
(* secret, or by anybody else, who may repeat a signature seen before.     *)
(***************************************************************************)
Entities ==
    {NoEntity} \cup [id : {1}, status : {Paid, Failed}, user_id : {null, "u1"},
                     plan : {Monthly, <<>>}]

Texts == [payload : Entities, layout : {"compact", "spaced"}]

\* the signatures sent with a text: none, the one made for it with the secret,
\* the one made with the secret for its compact text, one made with another
\* key, and the one the gateway made for another body
SignaturesFor(text) ==
    {NoSignature, createHmac(Secret, text), createHmac(Secret, JSONstringify(JSONparse(text))),
     createHmac("guess", text), createHmac(Secret, JSONstringify(NoEntity))}

Requests ==
    {req \in [method : {"POST", "GET"}, raw : Texts, json : BOOLEAN,
              signature : UNION {SignaturesFor(text) : text \in Texts}] :
        req.signature \in SignaturesFor(req.raw)}

Envs == {AllSet, [AllSet EXCEPT !.RAZORPAY_WEBHOOK_SECRET = null]}

InitWebhook ==
    /\ TablesPageOpened /\ engine = "strict"
    /\ NoMoneyPages
    /\ NoDocumentsPage
    /\ NoPdfExport /\ NoTableSwitch /\ updates = <<>>
    /\ env \in Envs
    /\ NoPaymentYet

NextWebhook ==
    \E req \in Requests, walletError \in BOOLEAN, profileError \in BOOLEAN :
        handler(req, walletError, profileError)

SpecWebhook == InitWebhook /\ [][NextWebhook]_vars

\* C30: the request the webhook handled last wrote to the store only if it
\* was a POST whose signature is the HMAC-SHA256 of its body under the
\* webhook secret, and it set the profile to premium only if, in addition,
\* the status of its payment is captured, authorized, paid or success.
Signed(req) == req.signature = createHmac(env.RAZORPAY_WEBHOOK_SECRET, req.raw)

C30_WebhookWrites ==
    /\ webhook.wrote # {} => webhook.req.method = "POST" /\ Signed(webhook.req)
    /\ "profiles" \in webhook.wrote => JSONparse(webhook.req.raw).status \in successStates

=============================================================================
